---- MODULE Spec2Model ----
(***************************************************************************)
(* PUBG match tracker and Discord bot: the polling cycle                   *)
(* (bot.py check_matches_loop, tracker.py get_latest_match), the posting   *)
(* ledger (bot.py posted_matches / posted_matches.json), the HTTP retry    *)
(* loop (tracker.py make_request_with_retry) and the match categorisation  *)
(* (tracker.py determine_match_category).                                  *)
(*                                                                         *)
(* A step of the polling cycle is the code between two await points: the   *)
(* bot is one asyncio task, so the commands, the remote API's own state    *)
(* and a kill of the process can only change between such steps.           *)
(***************************************************************************)
EXTENDS Integers, Sequences, FiniteSets, Bags

\* ------------------------------------------------------------------ bounds
\* number of things that happen to the bot in one run: a match played on the
\* remote platform, a roster command, a kill and restart of the process
MaxEvents == 2

\* retention limit of save_posted_matches; 200 in the source, scaled down so
\* that the ledger overflows within MaxEvents events
max_history == 1

\* player names the administrator and the platform know (lower-cased: the
\* code compares names case-insensitively)
Names == {"alice", "bob"}

\* the absent match id (a player without matches, a missing dict key)
NoMatch == 0

\* the loop variable before the loop has bound it
NoPlayer == "-"

\* a player the running cycle has not polled
NotPolled == -1

VARIABLES
    \* --- remote platform (environment)
    api_matches,        \* api_matches[m]: the participants of match id m
    channel,            \* the bag of MatchRecords sent to the Discord channel
    \* --- persisted
    ledger_file,        \* posted_matches.json: the ids it holds
    ledger_state,       \* the file: "missing" | "corrupt" | "ok"
    \* --- IntegratedPUBGBot
    players,            \* self.players: the roster, in order
    posted_matches,     \* self.posted_matches
    \* --- AsyncPUBGMatchTracker
    results,            \* self.results
    last_match_ids,     \* self.last_match_ids (NoMatch: key absent)
    processed_matches_this_cycle,
    \* --- the check_matches_loop coroutine: position and locals
    pc,                 \* "start" | "next" | "lookup" | "detail" | "send" | "sleep" | "cooldown"
    idx,                \* items the for loop has taken from self.players
    player_name,        \* the loop variable
    tracked_player_names,
    latest_match_id,    \* local of get_latest_match
    new_matches,        \* local of post_matches_to_discord
    post_idx,           \* items the posting loop has handled
    outcome,            \* how the loop's last step ended (what it logged)
    \* --- bookkeeping of the run
    restarts,           \* process kills so far
    events,             \* matches played, commands and kills so far
    recent,             \* the max_history ids last marked posted, oldest first
    polled,             \* this cycle, per player: the id its lookup resolved to,
                        \* NoMatch for a failed lookup, NotPolled before it
    stayed,             \* the players in the roster since the running cycle began
    unfetched,          \* <<player, id>>: the detail fetch made for the player
                        \* failed in this process and none has succeeded since
    requested,          \* the ids whose detail the cycle that polled last
                        \* has requested, in order
    seen_before,        \* last_match_ids as that cycle found it
    \* --- one call of make_request_with_retry
    max_retries,        \* self.max_retries
    server,             \* what the server answers to the 1st, 2nd, ... request
    remaining,          \* the X-RateLimit-Remaining header of each answer
    attempt,            \* the loop variable of range(self.max_retries)
    request_count,      \* self.request_count
    waits,              \* the sleeps of the call so far, in seconds
    ret,                \* what the call returned ("pending" while it runs)
    rpc,                \* "idle" | "loop" | "done"
    \* --- one call of determine_match_category
    game_mode,
    match_type,
    is_custom,
    match_category,     \* the value returned
    cpc,                \* "idle" | "call" | "returned"
    \* --- match_history.json and one call of calculate_weekly_best
    history_state,      \* the file: "missing" | "corrupt" | "ok"
    history_log,        \* the entries it holds
    weekly_data,        \* the value returned
    wpc,                \* "idle" | "call" | "returned"
    \* --- one call of save_match_history and the reload of the log
    individual_matches, \* the flattened records passed (new_matches); in the
                        \* polling model, by the cycle that began last
    loaded,             \* the log as read back
    hpc,                \* "idle" | "ready" | "saved" | "failed" | "loaded"
    \* --- the Discord client: on_ready, the two loops, the commands
    is_running,         \* self.is_running
    loops,              \* check_matches_loop / weekly_summary_loop tasks started
    cycles,             \* polling cycles in progress
    in_flight,          \* requests to the PUBG API awaiting their response
    command,            \* the command handled last: name, caller, number
    replies,            \* what its handler sent with ctx.send
    test_embed_file,    \* test_embed.txt has been written
    weekly_posted       \* the weekly embeds have been sent to the channel

botVars == <<players, posted_matches>>
trackerVars == <<results, last_match_ids, processed_matches_this_cycle>>
loopVars == <<pc, idx, player_name, tracked_player_names, latest_match_id,
              new_matches, post_idx, outcome>>
envVars == <<api_matches, channel>>
pollVars == <<api_matches, channel, ledger_file, ledger_state, players, posted_matches,
              results, last_match_ids, processed_matches_this_cycle, pc, idx,
              player_name, tracked_player_names, latest_match_id, new_matches,
              post_idx, outcome, restarts, events, recent, polled, stayed, unfetched, requested, seen_before>>
retryVars == <<max_retries, server, remaining, attempt, request_count, waits, ret, rpc>>
categoryVars == <<game_mode, match_type, is_custom, match_category, cpc>>
weeklyVars == <<history_state, history_log, weekly_data, wpc,
                individual_matches, loaded, hpc>>
clientVars == <<is_running, loops, cycles, in_flight, command, replies,
                test_embed_file, weekly_posted>>
vars == <<pollVars, retryVars, categoryVars, weeklyVars, clientVars>>

\* ------------------------------------------------------------------ helpers
Range(s) == {s[i] : i \in 1..Len(s)}

Min(a, b) == IF a < b THEN a ELSE b

\* s without the elements of S, order kept
RECURSIVE Without(_, _)
Without(s, S) ==
    IF s = <<>> THEN <<>>
    ELSE IF Head(s) \in S THEN Without(Tail(s), S)
         ELSE <<Head(s)>> \o Without(Tail(s), S)

\* the last n elements of s
LastN(s, n) == IF Len(s) <= n THEN s ELSE SubSeq(s, Len(s) - n + 1, Len(s))

\* GET /players?filter[playerNames]=p : the player's match ids, most recent
\* first; the code reads index 0
Latest(p) ==
    LET mine == {m \in 1..Len(api_matches) : p \in api_matches[m]}
    IN  IF mine = {} THEN NoMatch ELSE CHOOSE m \in mine : \A k \in mine : k <= m

MatchIdsOf(recs) == {recs[i].match_id : i \in 1..Len(recs)}

\* ------------------------------------------------------------------ Init
\* no call of make_request_with_retry is being followed
RetryIdle ==
    /\ max_retries = 0
    /\ server = <<>>
    /\ remaining = <<>>
    /\ attempt = 0
    /\ request_count = 0
    /\ waits = <<>>
    /\ ret = "pending"
    /\ rpc = "idle"

\* no call of determine_match_category is being followed
CategoryIdle ==
    /\ game_mode = <<>>
    /\ match_type = <<>>
    /\ is_custom = FALSE
    /\ match_category = <<>>
    /\ cpc = "idle"

\* the None a function returns
None == [kind |-> "None"]

\* no call of calculate_weekly_best is being followed
WeeklyIdle ==
    /\ history_state = "missing"
    /\ history_log = <<>>
    /\ weekly_data = None
    /\ wpc = "idle"
    /\ individual_matches = <<>>
    /\ loaded = <<>>
    /\ hpc = "idle"

\* the client is not followed: on_ready has started the loops, no command
NoCommand == [name |-> "none", admin |-> FALSE, n |-> 0]

ClientIdle ==
    /\ is_running = TRUE
    /\ loops = 1
    /\ cycles = 0
    /\ in_flight = 0
    /\ command = NoCommand
    /\ replies = <<>>
    /\ test_embed_file = FALSE
    /\ weekly_posted = FALSE

\* bot.py __init__ (40-53) and tracker.py __init__ (24-28) with no ledger file
\* on disk, before on_ready starts the polling task
BotInit ==
    /\ api_matches = <<>>
    /\ channel = EmptyBag
    /\ ledger_file = {}
    /\ ledger_state = "missing"
    /\ posted_matches = {}
    /\ results = <<>>
    /\ last_match_ids = [p \in Names |-> NoMatch]
    /\ processed_matches_this_cycle = {}
    /\ pc = "start"
    /\ idx = 0
    /\ player_name = NoPlayer
    /\ tracked_player_names = <<>>
    /\ latest_match_id = NoMatch
    /\ new_matches = <<>>
    /\ post_idx = 0
    /\ outcome = "none"
    /\ restarts = 0
    /\ events = 0
    /\ recent = <<>>
    /\ polled = [p \in Names |-> NotPolled]
    /\ stayed = {}
    /\ unfetched = {}
    /\ requested = <<>>
    /\ seen_before = [p \in Names |-> NoMatch]

Init ==
    /\ BotInit
    /\ players \in {<<"alice", "bob">>, <<"alice">>}
    /\ RetryIdle
    /\ CategoryIdle
    /\ WeeklyIdle
    /\ ClientIdle

\* ------------------------------------------------------------------ environment
\* a match ends on the platform: it becomes the latest match of its participants
PlayMatch ==
    /\ events < MaxEvents
    /\ events' = events + 1
    /\ \E ps \in (SUBSET Names) \ {{}} : api_matches' = Append(api_matches, ps)
    /\ UNCHANGED <<retryVars, categoryVars, weeklyVars, clientVars, channel, ledger_file, ledger_state, botVars, trackerVars, loopVars,
                   restarts, recent, polled, stayed, unfetched, requested, seen_before>>

\* ------------------------------------------------------------------ commands
\* A command handler runs while the cycle is suspended in an await or between
\* cycles; after the last player (bot.py 281-286) the loop does not await.
\* !addplayer by an administrator (bot.py 58-88): refused when the name is
\* already tracked, otherwise appended to the roster and to players.txt
AddPlayer(n) ==
    /\ events < MaxEvents
    /\ ~(pc = "next" /\ idx >= Len(players))
    /\ events' = events + 1
    /\ n \notin Range(players)
    /\ players' = Append(players, n)
    /\ UNCHANGED <<retryVars, categoryVars, weeklyVars, clientVars, envVars, ledger_file, ledger_state, posted_matches, trackerVars, loopVars, restarts, recent, polled, stayed, unfetched, requested, seen_before>>

\* !removeplayer by an administrator (bot.py 90-116): the first roster entry
\* with that name is removed and players.txt rewritten
RemovePlayer(n) ==
    /\ events < MaxEvents
    /\ ~(pc = "next" /\ idx >= Len(players))
    /\ events' = events + 1
    /\ n \in Range(players)
    /\ players' = Without(players, {n})
    /\ stayed' = stayed \ {n}
    /\ UNCHANGED <<unfetched, requested, seen_before>>
    /\ UNCHANGED <<retryVars, categoryVars, weeklyVars, clientVars, envVars, ledger_file, ledger_state, posted_matches, trackerVars, loopVars, restarts, recent, polled>>

\* ------------------------------------------------------------------ tracker
\* LookupDecision without the per-cycle dedup set
LookupDecisionNoDedup(p, m, processed, last) ==
    IF last[p] = m THEN "same_match" ELSE "new_match"

\* LookupDecision without the look at the id seen last
LookupDecisionNoLastSeen(p, m, processed, last) ==
    IF m \in processed THEN "already_processed" ELSE "new_match"

\* get_latest_match, lines 121-140: what is done with a resolved match id
LookupDecision(p, m, processed, last) ==
    IF m \in processed THEN "already_processed"
    ELSE IF last[p] = m THEN "same_match"
    ELSE "new_match"

\* get_latest_match line 147: all_tracked_players or [player_name]
TrackedArg(tracked, p) == IF tracked # <<>> THEN Range(tracked) ELSE {p}

\* get_match_details lines 189-195: the tracked names found among the
\* participants of the match (find_player_stats gives a non-empty dict for each)
ExtractStats(m, tracked) == {q \in tracked : q \in api_matches[m]}

\* get_match_details lines 197-211
MatchData(m, tracked) ==
    [match_id |-> m, all_players_stats |-> ExtractStats(m, tracked)]

\* KeepFetched discarding the records without player stats
KeepFetchedNonEmpty(rec) == rec.all_players_stats # {}

\* get_latest_match lines 150-155: a fetched record is kept unless the fetch
\* gave None (a dict with keys is truthy, whatever its all_players_stats)
KeepFetched(rec) == TRUE

\* the failures of a player lookup: make_request_with_retry gave None or the
\* player list is empty (108-110), the player has no matches (115-117), the
\* payload lacks a key (157-160)
LookupFailures == {"request_failed", "not_found", "no_matches", "malformed"}

\* the failures of a match-detail fetch (173-174, 213-216)
DetailFailures == {"detail_failed", "detail_malformed"}

\* AfterFailure with the failure escaping to the handler of the cycle
AfterFailureRaised == "cooldown"

\* where the loop goes when get_latest_match has returned for a failed lookup
\* or fetch: the exception is caught inside (157-160, 213-216), the for loop
\* goes on (bot.py 279-284)
AfterFailure == "next"

\* tracker.py reset_cycle and bot.py 270-274: a cycle begins and the for loop
\* takes the first roster entry (there is no await in between)
CycleStart ==
    /\ pc \in {"start", "sleep", "cooldown"}
    /\ players # <<>>
    /\ results' = <<>>
    /\ processed_matches_this_cycle' = {}
    /\ tracked_player_names' = players
    /\ player_name' = players[1]
    /\ idx' = 1
    /\ pc' = "lookup"
    /\ outcome' = "none"
    /\ polled' = [p \in Names |-> NotPolled]
    /\ stayed' = Range(players)
    /\ requested' = <<>>
    /\ seen_before' = last_match_ids
    /\ individual_matches' = <<>>
    /\ UNCHANGED unfetched
    /\ UNCHANGED <<retryVars, categoryVars, clientVars, envVars, ledger_file, ledger_state, botVars, last_match_ids,
                   history_state, history_log, weekly_data, wpc, loaded, hpc,
                   latest_match_id, new_matches, post_idx, restarts, events,
                   recent>>

\* bot.py 291-297: the cycle completes; the locals of the coroutine are gone
CycleComplete ==
    /\ pc' = "sleep"
    /\ idx' = 0
    /\ player_name' = NoPlayer
    /\ tracked_player_names' = <<>>
    /\ latest_match_id' = NoMatch
    /\ new_matches' = <<>>
    /\ post_idx' = 0
    /\ polled' = [p \in Names |-> NotPolled]
    /\ stayed' = {}
    /\ UNCHANGED <<unfetched, requested, seen_before>>

\* the same with an empty roster: the loop body never runs, the summary finds
\* no results, nothing is posted (bot.py 286-297)
CycleStartEmpty ==
    /\ pc \in {"start", "sleep", "cooldown"}
    /\ players = <<>>
    /\ results' = <<>>
    /\ processed_matches_this_cycle' = {}
    /\ CycleComplete
    /\ outcome' = "no_results"
    /\ individual_matches' = <<>>
    /\ UNCHANGED <<retryVars, categoryVars, clientVars, envVars, ledger_file, ledger_state, players, posted_matches, last_match_ids,
                   history_state, history_log, weekly_data, wpc, loaded, hpc, restarts, events, recent>>

\* bot.py 274 (and 281-283): the for loop takes the next roster entry
ForNext ==
    /\ pc = "next"
    /\ idx < Len(players)
    /\ player_name' = players[idx + 1]
    /\ idx' = idx + 1
    /\ pc' = "lookup"
    /\ outcome' = "none"
    /\ UNCHANGED <<retryVars, categoryVars, weeklyVars, clientVars, envVars, ledger_file, ledger_state, botVars, trackerVars,
                   tracked_player_names, latest_match_id, new_matches, post_idx,
                   restarts, events, recent, polled, stayed, unfetched, requested, seen_before>>

\* get_latest_match, the lookup fails: return None
LookupFailed ==
    /\ pc = "lookup"
    /\ \E kind \in LookupFailures :
          /\ kind = "no_matches" => Latest(player_name) = NoMatch
          /\ outcome' = kind
    /\ pc' = AfterFailure
    /\ polled' = [polled EXCEPT ![player_name] = NoMatch]
    /\ UNCHANGED <<stayed, unfetched, requested, seen_before>>
    /\ UNCHANGED <<retryVars, categoryVars, weeklyVars, clientVars, envVars, ledger_file, ledger_state, botVars, trackerVars, idx, player_name,
                   tracked_player_names, latest_match_id, new_matches, post_idx,
                   restarts, events, recent>>

\* get_latest_match 119-140, the lookup resolves the player's latest match
LookupFound ==
    /\ pc = "lookup"
    /\ Latest(player_name) # NoMatch
    /\ LET m == Latest(player_name)
           d == LookupDecision(player_name, m, processed_matches_this_cycle,
                               last_match_ids)
       IN  /\ outcome' = d
           /\ polled' = [polled EXCEPT ![player_name] = m]
           /\ UNCHANGED <<stayed, unfetched, requested, seen_before>>
           /\ latest_match_id' = IF d = "new_match" THEN m ELSE NoMatch
           /\ last_match_ids' =
                 IF d = "same_match" THEN last_match_ids
                 ELSE [last_match_ids EXCEPT ![player_name] = m]
           /\ processed_matches_this_cycle' =
                 IF d = "new_match" THEN processed_matches_this_cycle \cup {m}
                 ELSE processed_matches_this_cycle
           /\ pc' = IF d = "new_match" THEN "detail" ELSE "next"
    /\ UNCHANGED <<retryVars, categoryVars, weeklyVars, clientVars, envVars, ledger_file, ledger_state, botVars, results, idx, player_name,
                   tracked_player_names, new_matches, post_idx,
                   restarts, events, recent>>

\* get_match_details fails (None or an exception): nothing is appended
DetailFailed ==
    /\ pc = "detail"
    /\ \E kind \in DetailFailures : outcome' = kind
    /\ pc' = AfterFailure
    /\ latest_match_id' = NoMatch
    /\ requested' = Append(requested, latest_match_id)
    /\ unfetched' = unfetched \cup {<<player_name, latest_match_id>>}
    /\ UNCHANGED <<retryVars, categoryVars, weeklyVars, clientVars, envVars, ledger_file, ledger_state, botVars, trackerVars, idx, player_name,
                   tracked_player_names, new_matches, post_idx,
                   restarts, events, recent, polled, stayed, seen_before>>

\* get_match_details succeeds; get_latest_match 150-153 appends the record
DetailOk ==
    /\ pc = "detail"
    /\ LET rec == MatchData(latest_match_id,
                            TrackedArg(tracked_player_names, player_name))
       IN  results' = IF KeepFetched(rec) THEN Append(results, rec) ELSE results
    /\ outcome' = "detail_ok"
    /\ pc' = "next"
    /\ latest_match_id' = NoMatch
    /\ requested' = Append(requested, latest_match_id)
    /\ unfetched' = {u \in unfetched : u[2] # latest_match_id}
    /\ UNCHANGED <<retryVars, categoryVars, weeklyVars, clientVars, envVars, ledger_file, ledger_state, botVars, last_match_ids,
                   processed_matches_this_cycle, idx, player_name,
                   tracked_player_names, new_matches, post_idx,
                   restarts, events, recent, polled, stayed, seen_before>>

\* ------------------------------------------------------------------ HTTP retry
\* the largest configured max_retries followed (tracker.py 14: 3 by default,
\* Main.py reads it from the configuration)
MaxRetries == 2

\* what a request can come to: a 2xx response with a JSON body; a 429; an
\* aiohttp.ClientError (no connection, or raise_for_status on another status);
\* an exception that is no ClientError (the 30 s total timeout of the session
\* is an asyncio.TimeoutError, a body that is no JSON a ValueError)
Responses == {"ok", "429", "client_error", "other_error"}

\* the X-RateLimit-Reset header of a 429: absent, or seconds from now
ResetHeaders == {<<>>, <<0>>, <<100>>}

Max(a, b) == IF a > b THEN a ELSE b

\* make_request_with_retry 68-74
RateLimitWait(hdr) == IF hdr = <<>> THEN 60 ELSE Max(hdr[1] + 2, 60)

\* make_request_with_retry 87
BackoffWait(i) == (i + 1) * 5

\* the X-RateLimit-Remaining header of a response: absent (the 'N/A' default
\* of headers.get), a count below 3, a larger count, text that is no number
RemainingHeaders == {"N/A", "2", "40", "unlimited"}

\* check_rate_limit 48-55 runs on the response before its status is looked at
\* (65): int(remaining) raises a ValueError on text that is no number, which
\* leaves the try block through except Exception (91-93)
Received(status, hdr) ==
    IF hdr \in {"N/A", "2", "40"} THEN status ELSE "other_error"

\* what the running iteration makes of the response to its request
Response == Received(server[attempt + 1], remaining[attempt + 1])

\* a call is entered (57-58); the server's answers to come are fixed
RetryInit ==
    /\ max_retries \in 0..MaxRetries
    /\ server \in [1..(MaxRetries + 1) -> Responses]
    /\ remaining \in [1..(MaxRetries + 1) -> RemainingHeaders]
    /\ attempt = 0
    /\ request_count = 0
    /\ waits = <<>>
    /\ ret = "pending"
    /\ rpc = "loop"

\* a 429 that is answered by asking again within the same attempt
Retry429SameAttempt ==
    /\ rpc = "loop"
    /\ attempt < max_retries
    /\ Response = "429"
    /\ request_count' = request_count + 1
    /\ \E hdr \in ResetHeaders : waits' = Append(waits, RateLimitWait(hdr))
    /\ UNCHANGED <<pollVars, categoryVars, weeklyVars, clientVars, max_retries, server, remaining, attempt, ret, rpc>>

\* 60-77: the response is a 429; the call sleeps and the for loop takes the
\* next attempt (continue)
Retry429 ==
    /\ rpc = "loop"
    /\ attempt < max_retries
    /\ Response = "429"
    /\ request_count' = request_count + 1
    /\ \E hdr \in ResetHeaders : waits' = Append(waits, RateLimitWait(hdr))
    /\ attempt' = attempt + 1
    /\ UNCHANGED <<pollVars, categoryVars, weeklyVars, clientVars, max_retries, server, remaining, ret, rpc>>

\* 60-66, 79-80: the response is returned
RetryOk ==
    /\ rpc = "loop"
    /\ attempt < max_retries
    /\ Response = "ok"
    /\ request_count' = request_count + 1
    /\ ret' = "data"
    /\ rpc' = "done"
    /\ UNCHANGED <<pollVars, categoryVars, weeklyVars, clientVars, max_retries, server, remaining, attempt, waits>>

\* 82, 87-89: a ClientError with attempts left; the call backs off
RetryClientError ==
    /\ rpc = "loop"
    /\ attempt < max_retries - 1
    /\ Response = "client_error"
    /\ request_count' = request_count + 1
    /\ waits' = Append(waits, BackoffWait(attempt))
    /\ attempt' = attempt + 1
    /\ UNCHANGED <<pollVars, categoryVars, weeklyVars, clientVars, max_retries, server, remaining, ret, rpc>>

\* 82-85: a ClientError on the last attempt
RetryClientErrorLast ==
    /\ rpc = "loop"
    /\ attempt < max_retries
    /\ attempt = max_retries - 1
    /\ Response = "client_error"
    /\ request_count' = request_count + 1
    /\ ret' = "None"
    /\ rpc' = "done"
    /\ UNCHANGED <<pollVars, categoryVars, weeklyVars, clientVars, max_retries, server, remaining, attempt, waits>>

\* 91-93: any other exception ends the call at once
RetryUnexpected ==
    /\ rpc = "loop"
    /\ attempt < max_retries
    /\ Response = "other_error"
    /\ request_count' = request_count + 1
    /\ ret' = "None"
    /\ rpc' = "done"
    /\ UNCHANGED <<pollVars, categoryVars, weeklyVars, clientVars, max_retries, server, remaining, attempt, waits>>

\* 60, 95: range(self.max_retries) is exhausted
RetryExhausted ==
    /\ rpc = "loop"
    /\ attempt >= max_retries
    /\ ret' = "None"
    /\ rpc' = "done"
    /\ UNCHANGED <<pollVars, categoryVars, weeklyVars, clientVars, max_retries, server, remaining, attempt,
                   request_count, waits>>

\* ------------------------------------------------------------------ match category
\* a Python str is the sequence of its characters
UpperChars == <<"A", "B", "C", "D", "E", "F", "G", "H", "I", "J", "K", "L", "M", "N", "O", "P", "Q", "R", "S", "T", "U", "V", "W", "X", "Y", "Z">>

LowerChars == <<"a", "b", "c", "d", "e", "f", "g", "h", "i", "j", "k", "l", "m", "n", "o", "p", "q", "r", "s", "t", "u", "v", "w", "x", "y", "z">>

\* str.lower()
Lower(s) ==
    [i \in 1..Len(s) |->
        IF \E k \in 1..Len(UpperChars) : UpperChars[k] = s[i]
        THEN LowerChars[CHOOSE k \in 1..Len(UpperChars) : UpperChars[k] = s[i]]
        ELSE s[i]]

\* sub in s
Contains(sub, s) ==
    \E i \in 1..(Len(s) - Len(sub) + 1) : SubSeq(s, i, i + Len(sub) - 1) = sub

CUSTOM == <<"C", "U", "S", "T", "O", "M">>

RANKED == <<"R", "A", "N", "K", "E", "D">>

CASUAL == <<"C", "A", "S", "U", "A", "L">>

NORMAL == <<"N", "O", "R", "M", "A", "L">>

ARCADE == <<"A", "R", "C", "A", "D", "E">>

\* f"UNKNOWN ({game_mode})"
UNKNOWN(gm) == <<"U", "N", "K", "N", "O", "W", "N", " ", "(">> \o gm \o <<")">>

\* determine_match_category 249-252
arcade_keywords == <<
    <<"w", "a", "r">>,    \* 'war'
    <<"z", "o", "m", "b", "i", "e">>,    \* 'zombie'
    <<"t", "r", "a", "i", "n", "i", "n", "g">>,    \* 'training'
    <<"t", "d", "m">>,    \* 'tdm'
    <<"c", "o", "n", "q", "u", "e", "s", "t">>,    \* 'conquest'
    <<"i", "n", "t", "e", "n", "s", "e">>,    \* 'intense'
    <<"e", "s", "p", "o", "r", "t", "s">>,    \* 'esports'
    <<"e", "v", "e", "n", "t">>,    \* 'event'
    <<"l", "a", "b">>,    \* 'lab'
    <<"a", "r", "c", "a", "d", "e">>,    \* 'arcade'
    <<"i", "b", "r">>,    \* 'ibr'
    <<"b", "a", "t", "t", "l", "e", "r", "o", "y", "a", "l">>    \* 'battleroyal'
>>

\* determine_match_category 259
normal_modes == <<
    <<"s", "o", "l", "o">>,    \* 'solo'
    <<"s", "o", "l", "o", "-", "f", "p", "p">>,    \* 'solo-fpp'
    <<"d", "u", "o">>,    \* 'duo'
    <<"d", "u", "o", "-", "f", "p", "p">>,    \* 'duo-fpp'
    <<"s", "q", "u", "a", "d">>,    \* 'squad'
    <<"s", "q", "u", "a", "d", "-", "f", "p", "p">>    \* 'squad-fpp'
>>

\* determine_match_category 262
official_types == <<
    <<"o", "f", "f", "i", "c", "i", "a", "l">>,    \* 'official'
    <<"s", "e", "a", "s", "o", "n", "a", "l">>    \* 'seasonal'
>>

\* determine_match_category with the keyword check put before the airoyale
\* check
determine_match_category_arcade_first(gm, mt, custom) ==
    IF custom THEN CUSTOM
    ELSE IF Contains(<<"c","o","m","p","e","t","i","t","i","v","e">>, Lower(mt))
            \/ Contains(<<"r","a","n","k","e","d">>, Lower(mt))
    THEN RANKED
    ELSE IF \E k \in 1..Len(arcade_keywords) :
                Contains(arcade_keywords[k], Lower(gm))
    THEN ARCADE
    ELSE IF Contains(<<"a","i","r","o","y","a","l","e">>, Lower(mt))
    THEN CASUAL
    ELSE IF Lower(gm) \in Range(normal_modes)
    THEN IF Lower(mt) \in Range(official_types) THEN NORMAL ELSE ARCADE
    ELSE UNKNOWN(gm)

\* determine_match_category with the ranked check put before the custom check
determine_match_category_ranked_first(gm, mt, custom) ==
    IF Contains(<<"c","o","m","p","e","t","i","t","i","v","e">>, Lower(mt))
       \/ Contains(<<"r","a","n","k","e","d">>, Lower(mt))
    THEN RANKED
    ELSE IF custom THEN CUSTOM
    ELSE UNKNOWN(gm)

\* determine_match_category 229-270
determine_match_category(gm, mt, custom) ==
    LET game_mode_lower == Lower(gm)
        match_type_lower == Lower(mt)
    IN  IF custom THEN CUSTOM
        ELSE IF Contains(<<"c","o","m","p","e","t","i","t","i","v","e">>, match_type_lower)
                \/ Contains(<<"r","a","n","k","e","d">>, match_type_lower)
        THEN RANKED
        ELSE IF Contains(<<"a","i","r","o","y","a","l","e">>, match_type_lower)
        THEN CASUAL
        ELSE IF \E k \in 1..Len(arcade_keywords) :
                    Contains(arcade_keywords[k], game_mode_lower)
        THEN ARCADE
        ELSE IF game_mode_lower \in Range(normal_modes)
        THEN IF match_type_lower \in Range(official_types) THEN NORMAL ELSE ARCADE
        ELSE UNKNOWN(gm)

\* the gameMode values followed ('Unknown' is the default of get_match_details 178)
GameModes == {
    <<"s", "o", "l", "o">>,    \* "solo"
    <<"S", "Q", "U", "A", "D", "-", "F", "P", "P">>,    \* "SQUAD-FPP"
    <<"d", "u", "o", "-", "f", "p", "p">>,    \* "duo-fpp"
    <<"t", "d", "m">>,    \* "tdm"
    <<"t", "e", "a", "m", "-", "d", "e", "a", "t", "h", "m", "a", "t", "c", "h">>,    \* "team-deathmatch"
    <<"w", "a", "r">>,    \* "war"
    <<"z", "o", "m", "b", "i", "e">>,    \* "zombie"
    <<"U", "n", "k", "n", "o", "w", "n">>,    \* "Unknown"
    <<>>    \* ""
}

\* the matchType values followed ('Unknown' is the default of get_match_details 179)
MatchTypes == {
    <<"o", "f", "f", "i", "c", "i", "a", "l">>,    \* "official"
    <<"s", "e", "a", "s", "o", "n", "a", "l">>,    \* "seasonal"
    <<"c", "o", "m", "p", "e", "t", "i", "t", "i", "v", "e">>,    \* "competitive"
    <<"R", "a", "n", "k", "e", "d">>,    \* "Ranked"
    <<"a", "i", "r", "o", "y", "a", "l", "e">>,    \* "airoyale"
    <<"c", "u", "s", "t", "o", "m">>,    \* "custom"
    <<"a", "r", "c", "a", "d", "e">>,    \* "arcade"
    <<"U", "n", "k", "n", "o", "w", "n">>    \* "Unknown"
}

\* get_match_details 178-185: the attributes of a fetched match are read and
\* determine_match_category is called
CategoryInit ==
    /\ game_mode \in GameModes
    /\ match_type \in MatchTypes
    /\ is_custom \in BOOLEAN
    /\ match_category = <<>>
    /\ cpc = "call"

\* determine_match_category returns
Categorize ==
    /\ cpc = "call"
    /\ match_category' = determine_match_category(game_mode, match_type, is_custom)
    /\ cpc' = "returned"
    /\ UNCHANGED <<pollVars, retryVars, weeklyVars, clientVars, game_mode, match_type, is_custom>>

\* ------------------------------------------------------------------ weekly summary
\* the largest number of entries of match_history.json followed
MaxHistory == 3

\* the 'rank' of find_player_stats for a participant without winPlace
\* (tracker.py 281): the string 'N/A', which no number equals
RankNA == -1

UpperCase(s) ==
    [i \in 1..Len(s) |->
        IF \E k \in 1..Len(LowerChars) : LowerChars[k] = s[i]
        THEN UpperChars[CHOOSE k \in 1..Len(LowerChars) : LowerChars[k] = s[i]]
        ELSE s[i]]

\* calculate_weekly_best 66, 71-72
EXCLUDED_CATEGORIES == {CASUAL, ARCADE}

\* calculate_weekly_best 72 with the category compared as stored
CategoryExcludedAsStored(e) ==
    \/ \E excl \in EXCLUDED_CATEGORIES : Contains(excl, e.category)
    \/ Contains(<<"A","I","R","O","Y","A","L","E">>, e.category)

\* calculate_weekly_best 71-73: the entry is dropped for its category
CategoryExcluded(e) ==
    LET category == UpperCase(e.category)
    IN  \/ \E excl \in EXCLUDED_CATEGORIES : Contains(excl, category)
        \/ Contains(<<"A","I","R","O","Y","A","L","E">>, category)

\* what the 'timestamp' of an entry can be: an ISO time at or after the
\* cutoff, one before it, a string fromisoformat rejects ('' is the default of
\* get_match_details 183), an ISO time without offset (comparing it with the
\* aware cutoff raises TypeError)
Timestamps == {"recent", "old", "unparsable", "naive"}

\* calculate_weekly_best 75-80: the timestamp parses and is not before the
\* cutoff; an exception drops the entry
InWindow(e) == e.timestamp = "recent"

\* calculate_weekly_best 69-80: the entry goes to recent_matches
PassesFilter(e) == ~CategoryExcluded(e) /\ InWindow(e)

\* Round2 cutting the third decimal off
Round2Floor(n, d) == (100 * n) \div d

\* round(n / d, 2) in hundredths; n / d has no tie at the third decimal for
\* d < 8, the nearest hundredth is then the result
Round2(n, d) == (200 * n + d) \div (2 * d)

\* calculate_weekly_best 99-115, the keys the summary is checked on
ZeroStats ==
    [matches |-> 0, total_kills |-> 0, wins |-> 0, top_5 |-> 0, top_10 |-> 0,
     best_kills |-> 0, longest_kill |-> 0]

\* AddMatch with the three rank tests as one if / elif chain
AddMatchElif(acc, e) ==
    LET player == e.player_name
        stats == e.stats
        ps == IF player \in Range(acc.order) THEN acc.ps[player] ELSE ZeroStats
        new == [matches |-> ps.matches + 1,
                total_kills |-> ps.total_kills + stats.kills,
                wins |-> ps.wins + (IF stats.rank = 1 THEN 1 ELSE 0),
                top_5 |-> ps.top_5 + (IF stats.rank # 1 /\ stats.rank <= 5 THEN 1 ELSE 0),
                top_10 |-> ps.top_10 + (IF stats.rank > 5 /\ stats.rank <= 10 THEN 1 ELSE 0),
                best_kills |-> Max(ps.best_kills, stats.kills),
                longest_kill |-> Max(ps.longest_kill, stats.longest_kill)]
    IN  [order |-> IF player \in Range(acc.order) THEN acc.order
                   ELSE Append(acc.order, player),
         ps |-> [acc.ps EXCEPT ![player] = new],
         pool |-> IF stats.longest_kill > 0
                  THEN Append(acc.pool, [player |-> player,
                                         distance |-> stats.longest_kill])
                  ELSE acc.pool]

\* calculate_weekly_best 95-145: one entry is added to its player's totals;
\* player_stats is a dict, order holds its keys in insertion order
AddMatch(acc, e) ==
    LET player == e.player_name
        stats == e.stats
        ps == IF player \in Range(acc.order) THEN acc.ps[player] ELSE ZeroStats
        new == [matches |-> ps.matches + 1,
                total_kills |-> ps.total_kills + stats.kills,
                wins |-> ps.wins + (IF stats.rank = 1 THEN 1 ELSE 0),
                top_5 |-> ps.top_5 + (IF stats.rank <= 5 THEN 1 ELSE 0),
                top_10 |-> ps.top_10 + (IF stats.rank <= 10 THEN 1 ELSE 0),
                best_kills |-> Max(ps.best_kills, stats.kills),
                longest_kill |-> Max(ps.longest_kill, stats.longest_kill)]
    IN  [order |-> IF player \in Range(acc.order) THEN acc.order
                   ELSE Append(acc.order, player),
         ps |-> [acc.ps EXCEPT ![player] = new],
         pool |-> IF stats.longest_kill > 0
                  THEN Append(acc.pool, [player |-> player,
                                         distance |-> stats.longest_kill])
                  ELSE acc.pool]

\* calculate_weekly_best 88-150: the loop over recent_matches
RECURSIVE Aggregate(_, _)
Aggregate(ms, acc) ==
    IF ms = <<>> THEN acc ELSE Aggregate(Tail(ms), AddMatch(acc, Head(ms)))

\* InsertDesc putting an item before the items of its key
RECURSIVE InsertDescBeforeEqual(_, _)
InsertDescBeforeEqual(sorted, x) ==
    IF sorted = <<>> THEN <<x>>
    ELSE IF x.key >= Head(sorted).key THEN <<x>> \o sorted
         ELSE <<Head(sorted)>> \o InsertDescBeforeEqual(Tail(sorted), x)

\* list.sort / sorted with reverse=True on items [key, item]: descending by
\* key, equal keys keep their order
RECURSIVE InsertDesc(_, _)
InsertDesc(sorted, x) ==
    IF sorted = <<>> THEN <<x>>
    ELSE IF x.key > Head(sorted).key THEN <<x>> \o sorted
         ELSE <<Head(sorted)>> \o InsertDesc(Tail(sorted), x)

RECURSIVE SortDesc(_)
SortDesc(s) ==
    IF s = <<>> THEN <<>>
    ELSE InsertDesc(SortDesc(SubSeq(s, 1, Len(s) - 1)), s[Len(s)])

\* the items of a sorted list of [key, item]
Items(s) == [i \in 1..Len(s) |-> s[i].item]

\* PickTop3 taking the entries as they come, whoever they are of
RECURSIVE PickTop3AnyPlayer(_, _, _)
PickTop3AnyPlayer(pool, seen_players, top) ==
    IF pool = <<>> \/ Len(top) = 3 THEN top
    ELSE PickTop3AnyPlayer(Tail(pool), seen_players, Append(top, Head(pool)))

\* calculate_weekly_best 155-162: the best entry of each player, three at most
RECURSIVE PickTop3(_, _, _)
PickTop3(pool, seen_players, top) ==
    IF pool = <<>> \/ Len(top) = 3 THEN top
    ELSE IF Head(pool).player \notin seen_players
         THEN PickTop3(Tail(pool), seen_players \cup {Head(pool).player},
                       Append(top, Head(pool)))
         ELSE PickTop3(Tail(pool), seen_players, top)

\* calculate_weekly_best 165-182: averages and score, in hundredths (the stats
\* keys left out of an entry count 0)
Finalize(ps) ==
    LET avg_kills == Round2(ps.total_kills, ps.matches)
    IN  [matches |-> ps.matches, total_kills |-> ps.total_kills,
         wins |-> ps.wins, top_5 |-> ps.top_5, top_10 |-> ps.top_10,
         best_kills |-> ps.best_kills, longest_kill |-> ps.longest_kill,
         avg_kills |-> avg_kills,
         score |-> avg_kills * 100
                   + (ps.wins * 500 + ps.top_5 * 100 + ps.top_10 * 50) * 100]

\* max(player_stats.items(), key=score) (187): the first item, in the order of
\* the dict, that no item exceeds
MaxByScore(items) ==
    items[CHOOSE i \in 1..Len(items) :
              /\ \A j \in 1..Len(items) : items[j].stats.score <= items[i].stats.score
              /\ \A j \in 1..(i - 1) : items[j].stats.score < items[i].stats.score]

\* the players an entry of the history can be of: the roster's, and two that
\* were tracked once
HistoryPlayers == Names \cup {"carol", "dave"}

\* calculate_weekly_best 195-202
Summary(recent_matches) ==
    LET acc == Aggregate(recent_matches,
                         [order |-> <<>>, ps |-> [p \in HistoryPlayers |-> ZeroStats],
                          pool |-> <<>>])
        items == [i \in 1..Len(acc.order) |->
                     [player |-> acc.order[i],
                      stats |-> Finalize(acc.ps[acc.order[i]])]]
        sorted_players ==
            Items(SortDesc([i \in 1..Len(items) |->
                               [key |-> items[i].stats.score, item |-> items[i]]]))
        longest_kills_pool ==
            Items(SortDesc([i \in 1..Len(acc.pool) |->
                               [key |-> acc.pool[i].distance, item |-> acc.pool[i]]]))
        best_player == MaxByScore(items)
    IN  [kind |-> "summary",
         player |-> best_player.player,
         stats |-> best_player.stats,
         top3_longest_kills |-> PickTop3(longest_kills_pool, {}, <<>>),
         all_players |-> sorted_players,
         total_matches |-> Len(recent_matches)]

\* an exception leaving a block
Raised == [kind |-> "raised"]

\* calculate_weekly_best 60-202, the body of the try block: json.load raises
\* on a file that is no JSON; 'N/A' <= 5 raises TypeError (133)
WeeklyBody(history) ==
    LET recent_matches == SelectSeq(history, PassesFilter)
    IN  IF recent_matches = <<>> THEN None
        ELSE IF \E i \in 1..Len(recent_matches) :
                    recent_matches[i].stats.rank = RankNA
        THEN Raised
        ELSE Summary(recent_matches)

\* WeeklyCaught letting the exception through
WeeklyCaughtReraised(r) == r

\* calculate_weekly_best 204-207: except Exception ... return None
WeeklyCaught(r) == IF r.kind = "raised" THEN None ELSE r

\* calculate_weekly_best 55-207 on the history file in state file ("missing",
\* "corrupt" or "ok") holding the entries history
calculate_weekly_best(file, history) ==
    IF file = "missing" THEN None
    ELSE WeeklyCaught(IF file = "corrupt" THEN Raised ELSE WeeklyBody(history))

\* the stats of an entry followed: kills, rank and longest_kill (the keys left
\* out read 0 through stats.get)
Profiles == {
    [kills |-> 5, rank |-> 1, longest_kill |-> 100],
    [kills |-> 3, rank |-> 4, longest_kill |-> 0],
    [kills |-> 10, rank |-> 2, longest_kill |-> 250],
    [kills |-> 0, rank |-> 8, longest_kill |-> 100],
    [kills |-> 1, rank |-> RankNA, longest_kill |-> 50]
}

\* save_match_history 34-42: an entry of the history log
HistoryEntry(p, cat, ts, prof) ==
    [match_id |-> "m", player_name |-> p, timestamp |-> ts, stats |-> prof,
     map |-> "Baltic_Main", mode |-> "squad", category |-> cat]

\* the stored categories followed besides NORMAL
OtherCategories == {
    RANKED,
    ARCADE,
    <<"c","a","s","u","a","l">>,    \* "casual"
    <<"U","n","k","n","o","w","n"," ","(","A","i","R","o","y","a","l","e",")">>    \* "Unknown (AiRoyale)"
}

\* the entries a history is drawn from: every player and stats with a NORMAL
\* category and a recent timestamp, and alice's win with every other category
\* and every timestamp
WeeklyEntries ==
    {HistoryEntry(p, NORMAL, "recent", prof) : p \in Names, prof \in Profiles}
    \cup {HistoryEntry("alice", cat, "recent",
                       [kills |-> 5, rank |-> 1, longest_kill |-> 100]) :
             cat \in OtherCategories}
    \cup {HistoryEntry("alice", NORMAL, ts,
                       [kills |-> 5, rank |-> 1, longest_kill |-> 100]) :
             ts \in Timestamps}

\* weekly_summary_loop 316 / weekly_now 193: calculate_weekly_best is called on
\* a history file that is missing, unreadable, or holds up to MaxHistory entries
WeeklyInit ==
    /\ history_state \in {"missing", "corrupt", "ok"}
    /\ history_log \in UNION {[1..k -> WeeklyEntries] : k \in 0..MaxHistory}
    /\ history_state # "ok" => history_log = <<>>
    /\ weekly_data = None
    /\ wpc = "call"
    /\ individual_matches = <<>>
    /\ loaded = <<>>
    /\ hpc = "idle"

\* calculate_weekly_best returns
WeeklyBest ==
    /\ wpc = "call"
    /\ weekly_data' = calculate_weekly_best(history_state, history_log)
    /\ wpc' = "returned"
    /\ UNCHANGED <<pollVars, retryVars, categoryVars, clientVars, history_state, history_log,
                   individual_matches, loaded, hpc>>

\* ------------------------------------------------------------------ match history
\* WeeklyStatsManager.max_history (1000 in bot.py 41), scaled down so that the
\* log overflows within a save or two
stats_max_history == 2

\* json.dump of a dict with string keys: the members of the JSON object, one
\* <<key, value>> after the other
RECURSIVE DumpObject(_, _)
DumpObject(d, keys) ==
    IF keys = {} THEN <<>>
    ELSE LET k == CHOOSE x \in keys : TRUE
         IN  <<<<k, d[k]>>>> \o DumpObject(d, keys \ {k})

\* json.load of a JSON object: a dict; of two members with one key the later
\* one is kept
LoadObject(members) ==
    [k \in {members[i][1] : i \in 1..Len(members)} |->
        LET last == CHOOSE i \in 1..Len(members) :
                        /\ members[i][1] = k
                        /\ \A j \in 1..Len(members) : members[j][1] = k => j <= i
        IN  members[last][2]]

\* json.dump(history, f) (save_match_history 46-47): an array of objects, the
\* stats of each an object of its own
JsonDump(history) ==
    [i \in 1..Len(history) |->
        DumpObject([history[i] EXCEPT
                       !.stats = DumpObject(history[i].stats,
                                            DOMAIN history[i].stats)],
                   DOMAIN history[i])]

\* json.load(f) (save_match_history 30-31, calculate_weekly_best 61-62)
JsonLoad(text) ==
    [i \in 1..Len(text) |->
        LET d == LoadObject(text[i])
        IN  [d EXCEPT !.stats = LoadObject(d.stats)]]

\* save_matches_for_stats 395-408: the flattened records of one player in one
\* match that are followed
IndividualMatches ==
    LET IndividualMatch(p, id, prof) ==
            [player_name |-> p, match_id |-> id, match_category |-> NORMAL,
             game_mode |-> "squad", match_type |-> "official",
             is_custom |-> FALSE, map |-> "Baltic_Main",
             duration_seconds |-> 1680, duration_minutes |-> 28,
             played_at |-> "recent", played_at_formatted |-> "recent UTC",
             player_stats |-> prof]
    IN  {IndividualMatch(p, "m1", [kills |-> 5, rank |-> 1, longest_kill |-> 100]) :
            p \in Names}
        \cup
        {IndividualMatch(p, "m2", [kills |-> 3, rank |-> 4, longest_kill |-> 0]) :
            p \in Names}

\* save_match_history 34-42: the history entry of a flattened record
EntryOf(match) ==
    [match_id |-> match.match_id, player_name |-> match.player_name,
     timestamp |-> match.played_at, stats |-> match.player_stats,
     map |-> match.map, mode |-> match.game_mode,
     category |-> match.match_category]

\* Truncated keeping the head of the list
TruncatedHead(history) == SubSeq(history, 1, Min(Len(history), stats_max_history))

\* save_match_history 44: history[-self.max_history:]
Truncated(history) == LastN(history, stats_max_history)

\* NewHistory with the new entries put before the log read
NewHistoryPrepended(file, log, matches) ==
    Truncated([i \in 1..Len(matches) |-> EntryOf(matches[i])]
              \o (IF file = "ok" THEN log ELSE <<>>))

\* save_match_history 28-44: the list that is written
NewHistory(file, log, matches) ==
    Truncated((IF file = "ok" THEN log ELSE <<>>)
              \o [i \in 1..Len(matches) |-> EntryOf(matches[i])])

\* save_match_history 26-49: the file is read when it exists, the entries are
\* appended, the list is truncated and written
SaveMatchHistory ==
    /\ hpc \in {"ready", "loaded", "failed"}
    /\ history_state # "corrupt"
    /\ \E batch \in UNION {[1..k -> IndividualMatches] : k \in 1..2} :
          /\ individual_matches' = batch
          /\ history_log' =
                JsonLoad(JsonDump(NewHistory(history_state, history_log, batch)))
    /\ history_state' = "ok"
    /\ hpc' = "saved"
    /\ UNCHANGED <<pollVars, retryVars, categoryVars, clientVars, weekly_data, wpc, loaded>>

\* save_match_history 29-31, 51-53: the file is there and json.load raises;
\* the exception is caught and nothing is written
SaveMatchHistoryUnreadable ==
    /\ hpc \in {"ready", "loaded", "failed"}
    /\ history_state = "corrupt"
    /\ \E batch \in UNION {[1..k -> IndividualMatches] : k \in 1..2} :
          individual_matches' = batch
    /\ hpc' = "failed"
    /\ UNCHANGED <<pollVars, retryVars, categoryVars, clientVars, weekly_data, wpc, loaded,
                   history_state, history_log>>

\* save_match_history 46-47, 51-53: the write raises; open(..., 'w') has left
\* the file as it was or cut it to nothing
SaveMatchHistoryWriteFails ==
    /\ hpc \in {"ready", "loaded", "failed"}
    /\ history_state # "corrupt"
    /\ \E batch \in UNION {[1..k -> IndividualMatches] : k \in 1..2} :
          individual_matches' = batch
    /\ \/ UNCHANGED <<history_state, history_log>>
       \/ history_state' = "corrupt" /\ history_log' = <<>>
    /\ hpc' = "failed"
    /\ UNCHANGED <<pollVars, retryVars, categoryVars, clientVars, weekly_data, wpc, loaded>>

\* the persisted log is read back (json.load, calculate_weekly_best 61-62)
LoadHistory ==
    /\ hpc = "saved"
    /\ loaded' = history_log
    /\ hpc' = "loaded"
    /\ UNCHANGED <<pollVars, retryVars, categoryVars, clientVars, weekly_data, wpc,
                   history_state, history_log, individual_matches>>

\* ------------------------------------------------------------------ posting
\* load_posted_matches reading whatever ids the file names
load_posted_matches_unguarded(state, file) == file

\* load_posted_matches 229-239: the ids of the file; the empty set when the
\* file is missing or json.load (or set()) raises on what it holds
load_posted_matches(state, file) == IF state = "ok" THEN file ELSE {}

\* FilterNew without the look into the ledger
FilterNewUnchecked(matches, posted) == matches

\* post_matches_to_discord 349-357: the records whose id is not yet in
\* posted_matches, each id being added as it is met
RECURSIVE FilterNew(_, _)
FilterNew(matches, posted) ==
    IF matches = <<>> THEN <<>>
    ELSE IF Head(matches).match_id \notin posted
         THEN <<Head(matches)>> \o
              FilterNew(Tail(matches), posted \cup {Head(matches).match_id})
         ELSE FilterNew(Tail(matches), posted)

\* Truncations without the slice
TruncationsKeepAll(posted, limit) == {posted}

\* save_posted_matches 243: list(self.posted_matches)[-max_history:]. The
\* ledger is a set of strings, whose iteration order is whatever the hash
\* table gives: any max_history of its members can be the ones kept
Truncations(posted, limit) ==
    {K \in SUBSET posted : Cardinality(K) = Min(Cardinality(posted), limit)}

\* EmbedBuilt without the guard on all_players_stats
EmbedBuiltAlways(rec) == TRUE

\* create_enhanced_match_embed 6-10: no embed for an empty all_players_stats
EmbedBuilt(rec) == rec.all_players_stats # {}

\* print_cycle_summary 332: min() over the ranks of a record raises TypeError
\* when they mix numbers and the 'N/A' default of find_player_stats (281),
\* which takes a record with two players or more
SummaryCanRaise(recs) ==
    \E i \in 1..Len(recs) : Cardinality(recs[i].all_players_stats) >= 2

\* the for loop is exhausted (bot.py 274, 281)
LoopDone == pc = "next" /\ idx >= Len(players)

\* AfterCycleError with the exception ending the task
AfterCycleErrorStopped == "stopped"

\* where the loop goes when the cycle has raised: bot.py 299-302 logs the
\* exception and sleeps 60 s, and tasks.loop runs the coroutine again
AfterCycleError == "cooldown"

\* bot.py 286, 299-302: the summary raises, the cycle is abandoned
EndSummaryRaises ==
    /\ LoopDone
    /\ SummaryCanRaise(results)
    /\ pc' = AfterCycleError
    /\ outcome' = "cycle_error"
    /\ idx' = 0
    /\ player_name' = NoPlayer
    /\ tracked_player_names' = <<>>
    /\ polled' = [p \in Names |-> NotPolled]
    /\ stayed' = {}
    /\ UNCHANGED <<unfetched, requested, seen_before>>
    /\ UNCHANGED <<retryVars, categoryVars, weeklyVars, clientVars, envVars, ledger_file, ledger_state, botVars, trackerVars, latest_match_id,
                   new_matches, post_idx, restarts, events, recent>>

\* bot.py 288: no results, nothing to post
EndNoResults ==
    /\ LoopDone
    /\ results = <<>>
    /\ CycleComplete
    /\ outcome' = "no_results"
    /\ UNCHANGED <<retryVars, categoryVars, weeklyVars, clientVars, envVars, ledger_file, ledger_state, players, posted_matches, trackerVars,
                   restarts, events, recent>>

\* EndChannelMissing with the channel looked up after the results have been
\* marked as posted
EndChannelMissingAfterMarking ==
    /\ LoopDone
    /\ results # <<>>
    /\ CycleComplete
    /\ outcome' = "channel_missing"
    /\ posted_matches' = posted_matches \cup MatchIdsOf(FilterNew(results, posted_matches))
    /\ UNCHANGED <<retryVars, categoryVars, weeklyVars, clientVars, envVars, ledger_file, ledger_state, players, trackerVars,
                   restarts, events, recent>>

\* post_matches_to_discord 344-347: the channel is not found
EndChannelMissing ==
    /\ LoopDone
    /\ results # <<>>
    /\ CycleComplete
    /\ outcome' = "channel_missing"
    /\ UNCHANGED <<retryVars, categoryVars, weeklyVars, clientVars, envVars, ledger_file, ledger_state, players, posted_matches, trackerVars,
                   restarts, events, recent>>

\* post_matches_to_discord 349-361: every result is already in the ledger
EndAllPosted ==
    /\ LoopDone
    /\ results # <<>>
    /\ FilterNew(results, posted_matches) = <<>>
    /\ CycleComplete
    /\ outcome' = "all_posted"
    /\ UNCHANGED <<retryVars, categoryVars, weeklyVars, clientVars, envVars, ledger_file, ledger_state, players, posted_matches, trackerVars,
                   restarts, events, recent>>

\* post_matches_to_discord 349-365: the new records are marked posted, the
\* ledger is truncated and saved (the write to disk succeeds), and the first
\* send is awaited
EndPost ==
    /\ LoopDone
    /\ results # <<>>
    /\ LET new == FilterNew(results, posted_matches)
           ids == MatchIdsOf(new)
       IN  /\ new # <<>>
           /\ new_matches' = new
           /\ \E keep \in Truncations(posted_matches \cup ids, max_history) :
                 /\ posted_matches' = keep
                 /\ ledger_file' = keep
                 /\ ledger_state' = "ok"
           /\ recent' = LastN(Without(recent, ids) \o
                                [i \in 1..Len(new) |-> new[i].match_id], max_history)
    /\ post_idx' = 0
    /\ polled' = [p \in Names |-> NotPolled]
    /\ stayed' = {}
    /\ UNCHANGED <<unfetched, requested, seen_before>>
    /\ pc' = "send"
    /\ outcome' = "posting"
    /\ UNCHANGED <<retryVars, categoryVars, weeklyVars, clientVars, envVars, players, trackerVars, idx, player_name,
                   tracked_player_names, latest_match_id, restarts, events>>

\* save_matches_for_stats 395-408: the flattened record of one player of a
\* match; the fields of a match that the polling model does not follow have
\* the values of an official squad match
IndividualMatchOf(rec, q) ==
    [player_name |-> q, match_id |-> rec.match_id, match_category |-> NORMAL,
     game_mode |-> "squad", match_type |-> "official",
     is_custom |-> FALSE, map |-> "Baltic_Main",
     duration_seconds |-> 1680, duration_minutes |-> 28,
     played_at |-> "recent", played_at_formatted |-> "recent UTC",
     player_stats |-> [kills |-> 5, rank |-> 1, longest_kill |-> 100]]

\* save_matches_for_stats 391-408: the flattened records of the matches, one
\* for each player of each match, match after match. The players of a match
\* come in the order of its dict, which is the order of the names passed to
\* the fetch (tracker.py 193-197): the tracked_player_names of the cycle
RECURSIVE Flattened(_, _)
Flattened(matches, tracked) ==
    IF matches = <<>> THEN <<>>
    ELSE LET rec == Head(matches)
             found == SelectSeq(tracked, LAMBDA q : q \in rec.all_players_stats)
         IN  [i \in 1..Len(found) |-> IndividualMatchOf(rec, found[i])]
             \o Flattened(Tail(matches), tracked)

\* save_matches_for_stats 387-417: the flattened records are handed to
\* save_match_history when there are any. The history file is read and
\* written without an error, and history_log is the list written: the dump
\* to the file and the load from it are followed by SaveMatchHistory
save_matches_for_stats(matches) ==
    LET flat == Flattened(matches, tracked_player_names)
    IN  /\ individual_matches' = flat
        /\ IF flat # <<>>
           THEN /\ history_log' = NewHistory(history_state, history_log, flat)
                /\ history_state' = "ok"
           ELSE UNCHANGED <<history_state, history_log>>

\* post_matches_to_discord 376-381 and bot.py 291-297: after a record has been
\* handled, the next one follows, or the records are saved for the weekly
\* statistics and the cycle completes
AfterRecord ==
    IF post_idx + 1 < Len(new_matches)
    THEN /\ post_idx' = post_idx + 1
         /\ UNCHANGED <<pc, idx, player_name, tracked_player_names,
                        latest_match_id, new_matches, polled, stayed, unfetched, requested, seen_before,
                        history_state, history_log, individual_matches>>
    ELSE /\ save_matches_for_stats(new_matches)
         /\ CycleComplete

\* post_matches_to_discord 368-372: the record is sent to the channel
SendOk ==
    /\ pc = "send"
    /\ EmbedBuilt(new_matches[post_idx + 1])
    /\ channel' = channel (+) SetToBag({new_matches[post_idx + 1]})
    /\ AfterRecord
    /\ outcome' = "sent"
    /\ UNCHANGED <<retryVars, categoryVars, clientVars, api_matches, ledger_file, ledger_state, players, posted_matches, trackerVars,
                   weekly_data, wpc, loaded, hpc, restarts, events, recent>>

\* post_matches_to_discord 373-374: no embed, the record is skipped
SendSkipped ==
    /\ pc = "send"
    /\ ~EmbedBuilt(new_matches[post_idx + 1])
    /\ AfterRecord
    /\ outcome' = "skipped"
    /\ UNCHANGED <<retryVars, categoryVars, clientVars, envVars, ledger_file, ledger_state, players, posted_matches, trackerVars,
                   weekly_data, wpc, loaded, hpc, restarts, events, recent>>

\* post_matches_to_discord 370, 383-385: channel.send raises, the rest of the
\* records is not sent; the cycle completes
SendRaises ==
    /\ pc = "send"
    /\ EmbedBuilt(new_matches[post_idx + 1])
    /\ CycleComplete
    /\ outcome' = "send_error"
    /\ UNCHANGED <<retryVars, categoryVars, weeklyVars, clientVars, envVars, ledger_file, ledger_state, players, posted_matches, trackerVars,
                   restarts, events, recent>>

\* ------------------------------------------------------------------ restart
\* the process is killed and started again: bot.py __init__ (40-53) reloads
\* the ledger from disk, the tracker starts empty (tracker.py 24-28)
Restart ==
    /\ events < MaxEvents
    /\ events' = events + 1
    /\ restarts' = restarts + 1
    /\ posted_matches' = load_posted_matches(ledger_state, ledger_file)
    /\ results' = <<>>
    /\ last_match_ids' = [p \in Names |-> NoMatch]
    /\ processed_matches_this_cycle' = {}
    /\ pc' = "start"
    /\ idx' = 0
    /\ player_name' = NoPlayer
    /\ tracked_player_names' = <<>>
    /\ latest_match_id' = NoMatch
    /\ new_matches' = <<>>
    /\ post_idx' = 0
    /\ outcome' = "none"
    /\ polled' = [p \in Names |-> NotPolled]
    /\ stayed' = {}
    /\ unfetched' = {}
    /\ requested' = <<>>
    /\ seen_before' = [p \in Names |-> NoMatch]
    /\ individual_matches' = <<>>
    /\ UNCHANGED <<retryVars, categoryVars, clientVars, envVars, ledger_file, ledger_state, players, recent,
                   history_state, history_log, weekly_data, wpc, loaded, hpc>>

\* ------------------------------------------------------------------ client
\* The Discord client runs everything on one event loop: on_ready, the
\* iterations of the two tasks.loop coroutines and the command handlers
\* interleave at their awaits.

\* the rest of the model, which the client actions leave alone; the roster
\* and the event count are the ones of the polling model
clientRest ==
    <<retryVars, categoryVars, weeklyVars, envVars, ledger_file, ledger_state, posted_matches,
      trackerVars, loopVars, restarts, recent, polled, stayed, unfetched, requested, seen_before>>

\* on_ready starting the loops whatever is_running says
StartLoopsAlways(running) == TRUE

\* on_ready 258: if not self.is_running
StartLoops(running) == ~running

\* on_ready 251-261: fires at every (re)connection
OnReady ==
    /\ events < MaxEvents
    /\ events' = events + 1
    /\ IF StartLoops(is_running)
       THEN loops' = loops + 1 /\ is_running' = TRUE
       ELSE UNCHANGED <<loops, is_running>>
    /\ UNCHANGED <<clientRest, players, cycles, in_flight, command, replies,
                   test_embed_file, weekly_posted>>

\* check_matches_loop 263-270: a started task that is between two iterations
\* begins a cycle
LoopCycleBegin ==
    /\ cycles < loops
    /\ cycles' = cycles + 1
    /\ UNCHANGED <<clientRest, players, events, is_running, loops, in_flight,
                   command, replies, test_embed_file, weekly_posted>>

\* check_matches_loop 279, tracker.py 64: a cycle that awaits no response
\* sends its next request
LoopRequest ==
    /\ in_flight < cycles
    /\ in_flight' = in_flight + 1
    /\ UNCHANGED <<clientRest, players, events, is_running, loops, cycles,
                   command, replies, test_embed_file, weekly_posted>>

\* tracker.py 64-80: the response (or the exception) arrives
LoopResponse ==
    /\ in_flight > 0
    /\ in_flight' = in_flight - 1
    /\ UNCHANGED <<clientRest, players, events, is_running, loops, cycles,
                   command, replies, test_embed_file, weekly_posted>>

\* check_matches_loop 286-302: a cycle that awaits no response ends
LoopCycleEnd ==
    /\ cycles > in_flight
    /\ cycles' = cycles - 1
    /\ UNCHANGED <<clientRest, players, events, is_running, loops, in_flight,
                   command, replies, test_embed_file, weekly_posted>>

\* weekly_summary_loop 304-340 at its hour: reads the history file and sends
\* the two embeds to the weekly channel; no request to the PUBG API
WeeklyTimer ==
    /\ loops > 0
    /\ weekly_posted' = TRUE
    /\ UNCHANGED <<clientRest, players, events, is_running, loops, cycles,
                   in_flight, command, replies, test_embed_file>>

\* the command whose handler runs: its name, whether the caller has
\* guild_permissions.administrator, and its number
Handled(name, admin) == [name |-> name, admin |-> admin, n |-> events + 1]

\* the names a command can be given: those of the players, and alice's in
\* capitals
CommandNames == Names \cup {"ALICE"}

\* str.lower() on these names
NameLower(n) == IF n = "ALICE" THEN "alice" ELSE n

\* the roster entries whose name is n but for the case of the letters
SameName(roster, n) == {i \in 1..Len(roster) : NameLower(roster[i]) = NameLower(n)}

\* !addplayer, bot.py 58-88: refused when the name is tracked already, in
\* whatever case; the name is appended as given, and removed again when
\* players.txt cannot be written
CmdAddPlayer(admin, n) ==
    /\ events < MaxEvents
    /\ events' = events + 1
    /\ command' = Handled("addplayer", admin)
    /\ \/ /\ ~admin
          /\ replies' = <<"refused">>
          /\ UNCHANGED players
       \/ /\ admin /\ SameName(players, n) # {}
          /\ replies' = <<"already tracked">>
          /\ UNCHANGED players
       \/ /\ admin /\ SameName(players, n) = {}
          /\ replies' = <<"added">>
          /\ players' = Append(players, n)
       \/ /\ admin /\ SameName(players, n) = {}
          /\ replies' = <<"error saving">>
          /\ players' = Without(Append(players, n), {n})
    /\ UNCHANGED <<clientRest, is_running, loops, cycles, in_flight,
                   test_embed_file, weekly_posted>>

\* !removeplayer, bot.py 90-116: the first roster entry of that name, in
\* whatever case, is removed; when the file cannot be rewritten the name
\* given to the command is appended, at the end of the roster
CmdRemovePlayer(admin, n) ==
    /\ events < MaxEvents
    /\ events' = events + 1
    /\ command' = Handled("removeplayer", admin)
    /\ \/ /\ ~admin
          /\ replies' = <<"refused">>
          /\ UNCHANGED players
       \/ /\ admin /\ SameName(players, n) = {}
          /\ replies' = <<"not found">>
          /\ UNCHANGED players
       \/ /\ admin /\ SameName(players, n) # {}
          /\ LET found == CHOOSE i \in SameName(players, n) :
                              \A j \in SameName(players, n) : i <= j
                 rest == SubSeq(players, 1, found - 1)
                         \o SubSeq(players, found + 1, Len(players))
             IN  \/ /\ replies' = <<"removed">>
                    /\ players' = rest
                 \/ /\ replies' = <<"error updating">>
                    /\ players' = Append(rest, n)
    /\ UNCHANGED <<clientRest, is_running, loops, cycles, in_flight,
                   test_embed_file, weekly_posted>>

\* !listplayers, bot.py 118-138: no check of the caller
CmdListPlayers(admin) ==
    /\ events < MaxEvents
    /\ events' = events + 1
    /\ command' = Handled("listplayers", admin)
    /\ replies' = IF players = <<>> THEN <<"no players">> ELSE <<"list">>
    /\ UNCHANGED <<clientRest, players, is_running, loops, cycles, in_flight,
                   test_embed_file, weekly_posted>>

\* !testpost [name], bot.py 142-184: no check of the caller; without a name
\* and with an empty roster it stops, otherwise it writes test_embed.txt
CmdTestPost(admin, named) ==
    /\ events < MaxEvents
    /\ events' = events + 1
    /\ command' = Handled("testpost", admin)
    /\ IF ~named /\ players = <<>>
       THEN replies' = <<"no players">> /\ UNCHANGED test_embed_file
       ELSE replies' = <<"saved">> /\ test_embed_file' = TRUE
    /\ UNCHANGED <<clientRest, players, is_running, loops, cycles, in_flight,
                   weekly_posted>>

\* !weeklynow, bot.py 186-217
CmdWeeklyNow(admin) ==
    /\ events < MaxEvents
    /\ events' = events + 1
    /\ command' = Handled("weeklynow", admin)
    /\ \/ /\ ~admin
          /\ replies' = <<"refused">>
          /\ UNCHANGED weekly_posted
       \/ /\ admin
          /\ replies' = <<"generating", "no data">>
          /\ UNCHANGED weekly_posted
       \/ /\ admin
          /\ replies' = <<"generating", "data ok", "channel not found">>
          /\ UNCHANGED weekly_posted
       \/ /\ admin
          /\ replies' = <<"generating", "data ok", "channel found",
                          "embed 1 sent", "done">>
          /\ weekly_posted' = TRUE
       \/ /\ admin
          /\ replies' = <<"generating", "data ok", "channel found", "error">>
          /\ UNCHANGED weekly_posted
    /\ UNCHANGED <<clientRest, players, is_running, loops, cycles, in_flight,
                   test_embed_file>>

\* bot.py 40-53: the object as constructed, the client not yet connected
ClientInit ==
    /\ is_running = FALSE
    /\ loops = 0
    /\ cycles = 0
    /\ in_flight = 0
    /\ command = NoCommand
    /\ replies = <<>>
    /\ test_embed_file = FALSE
    /\ weekly_posted = FALSE

\* ------------------------------------------------------------------ reset_cycle
\* reset_cycle that also forgets the ids seen last
reset_cycle_forgetting(t) ==
    [results |-> <<>>, request_count |-> 0, processed_matches_this_cycle |-> {},
     last_match_ids |-> [p \in Names |-> NoMatch]]

\* reset_cycle 41-46 on the tracker's fields (cycle_start_time apart)
reset_cycle(t) ==
    [t EXCEPT !.results = <<>>, !.request_count = 0,
              !.processed_matches_this_cycle = {}]

\* check_matches_loop 270 calls reset_cycle on the tracker as the cycles so
\* far have left it
ResetSpecInit ==
    /\ CategoryIdle /\ WeeklyIdle /\ ClientIdle
    /\ results \in {<<>>} \cup
                   {<<[match_id |-> m, all_players_stats |-> {"alice"}]>> :
                       m \in 1..MaxEvents}
    /\ request_count \in 0..MaxEvents
    /\ processed_matches_this_cycle \in SUBSET (1..MaxEvents)
    /\ last_match_ids \in [Names -> {NoMatch} \cup 1..MaxEvents]
    /\ pc = "call"
    /\ max_retries = 0 /\ server = <<>> /\ remaining = <<>> /\ attempt = 0
    /\ waits = <<>> /\ ret = "pending" /\ rpc = "idle"
    /\ api_matches = <<>> /\ channel = EmptyBag /\ ledger_file = {} /\ ledger_state = "missing"
    /\ players = <<"alice", "bob">> /\ posted_matches = {}
    /\ idx = 0 /\ player_name = NoPlayer /\ tracked_player_names = <<>>
    /\ latest_match_id = NoMatch /\ new_matches = <<>> /\ post_idx = 0
    /\ outcome = "none" /\ restarts = 0 /\ events = 0 /\ recent = <<>>
    /\ polled = [p \in Names |-> NotPolled] /\ stayed = {}
    /\ unfetched = {} /\ requested = <<>>
    /\ seen_before = [p \in Names |-> NoMatch]

\* reset_cycle 41-46 returns
ResetCycle ==
    /\ pc = "call"
    /\ LET t == reset_cycle([results |-> results,
                             request_count |-> request_count,
                             processed_matches_this_cycle |->
                                 processed_matches_this_cycle,
                             last_match_ids |-> last_match_ids])
       IN  /\ results' = t.results
           /\ request_count' = t.request_count
           /\ processed_matches_this_cycle' = t.processed_matches_this_cycle
           /\ last_match_ids' = t.last_match_ids
    /\ pc' = "returned"
    /\ UNCHANGED <<categoryVars, weeklyVars, clientVars, envVars, ledger_file, ledger_state,
                   botVars, idx, player_name, tracked_player_names,
                   latest_match_id, new_matches, post_idx, outcome, restarts,
                   events, recent, polled, stayed, unfetched, requested,
                   seen_before, max_retries, server, remaining, attempt, waits,
                   ret, rpc>>

\* ------------------------------------------------------------------ specification
LoopStep ==
    \/ CycleStart \/ CycleStartEmpty \/ ForNext
    \/ LookupFailed \/ LookupFound \/ DetailFailed \/ DetailOk
    \/ EndSummaryRaises \/ EndNoResults \/ EndChannelMissing \/ EndAllPosted
    \/ EndPost \/ SendOk \/ SendSkipped \/ SendRaises

Next ==
    \/ LoopStep
    \/ PlayMatch
    \/ \E n \in Names : AddPlayer(n)
    \/ \E n \in Names : RemovePlayer(n)
    \/ Restart

Spec == Init /\ [][Next]_vars

\* the polling task runs as long as the process lives: asyncio resumes it after
\* every await, and tasks.loop calls the coroutine again after it returns
FairSpec == Spec /\ WF_vars(LoopStep)

\* the bot is started on every ledger file it can find on disk (bot.py 43):
\* none, one that cannot be read (what a damaged file still names is of no
\* account), or a list of ids; matches are played, cycles run, the roster is
\* changed, the process is restarted
LedgerSpecInit ==
    /\ api_matches = <<>> /\ channel = EmptyBag
    /\ ledger_state \in {"missing", "corrupt", "ok"}
    /\ ledger_file \in SUBSET (1..MaxEvents)
    /\ ledger_state = "missing" => ledger_file = {}
    /\ posted_matches = load_posted_matches(ledger_state, ledger_file)
    /\ results = <<>>
    /\ last_match_ids = [p \in Names |-> NoMatch]
    /\ processed_matches_this_cycle = {}
    /\ pc = "start" /\ idx = 0 /\ player_name = NoPlayer
    /\ tracked_player_names = <<>> /\ latest_match_id = NoMatch
    /\ new_matches = <<>> /\ post_idx = 0 /\ outcome = "none"
    /\ restarts = 0 /\ events = 0 /\ recent = <<>>
    /\ polled = [p \in Names |-> NotPolled]
    /\ stayed = {} /\ unfetched = {} /\ requested = <<>>
    /\ seen_before = [p \in Names |-> NoMatch]
    /\ players \in {<<"alice", "bob">>, <<"alice">>}
    /\ RetryIdle /\ CategoryIdle /\ WeeklyIdle /\ ClientIdle

LedgerNext == Next

LedgerSpec == LedgerSpecInit /\ [][LedgerNext]_vars

\* one call of make_request_with_retry against every script of answers
RetryNext ==
    \/ Retry429 \/ RetryOk \/ RetryClientError \/ RetryClientErrorLast
    \/ RetryUnexpected \/ RetryExhausted

RetrySpecInit ==
    BotInit /\ players = <<>> /\ CategoryIdle /\ WeeklyIdle /\ ClientIdle /\ RetryInit

RetrySpec == RetrySpecInit /\ [][RetryNext]_vars

\* every sleep of the call ends and every request ends, by the 30 s timeout of
\* the session at the latest (tracker.py 34), so a call that can step does
FairRetrySpec == RetrySpec /\ WF_vars(RetryNext)

\* one call of determine_match_category on every input followed
CategorySpecInit ==
    BotInit /\ players = <<>> /\ RetryIdle /\ WeeklyIdle /\ ClientIdle /\ CategoryInit

CategoryNext == Categorize

CategorySpec == CategorySpecInit /\ [][CategoryNext]_vars

\* one call of calculate_weekly_best on every history followed
WeeklySpecInit ==
    BotInit /\ players = <<>> /\ RetryIdle /\ CategoryIdle /\ ClientIdle /\ WeeklyInit

WeeklyNext == WeeklyBest

WeeklySpec == WeeklySpecInit /\ [][WeeklyNext]_vars

\* the entries of the calls whose ranking is followed: a win, a 4th, an 8th and
\* a 15th place of every player, an ARCADE win of alice and an old win of bob
RankEntries ==
    {HistoryEntry(p, NORMAL, "recent", [kills |-> 2, rank |-> r, longest_kill |-> 0]) :
        p \in Names, r \in {1, 4, 8, 15}}
    \cup {HistoryEntry("alice", ARCADE, "recent", [kills |-> 2, rank |-> 1, longest_kill |-> 0]),
          HistoryEntry("bob", NORMAL, "old", [kills |-> 2, rank |-> 1, longest_kill |-> 0])}

\* calculate_weekly_best is called on a readable history of up to MaxHistory
\* of these entries
RankSpecInit ==
    /\ BotInit /\ players = <<>> /\ RetryIdle /\ CategoryIdle /\ ClientIdle
    /\ history_state = "ok"
    /\ history_log \in UNION {[1..k -> RankEntries] : k \in 0..MaxHistory}
    /\ weekly_data = None
    /\ wpc = "call"
    /\ individual_matches = <<>>
    /\ loaded = <<>>
    /\ hpc = "idle"

RankSpec == RankSpecInit /\ [][WeeklyNext]_vars

\* the longest history of the calls whose longest kills are followed
MaxPool == 4

\* the entries of those calls: wins with a longest kill of 100 m or 250 m of
\* alice and bob, of 100 m of carol, of 250 m of dave, and a win of alice
\* without a kill
PoolEntries ==
    LET Win(p, d) == HistoryEntry(p, NORMAL, "recent",
                                  [kills |-> 1, rank |-> 1, longest_kill |-> d])
    IN  {Win(p, d) : p \in Names, d \in {100, 250}}
        \cup {Win("carol", 100), Win("dave", 250), Win("alice", 0)}

\* calculate_weekly_best is called on a readable history of up to MaxPool of
\* these entries
PoolSpecInit ==
    /\ BotInit /\ players = <<>> /\ RetryIdle /\ CategoryIdle /\ ClientIdle
    /\ history_state = "ok"
    /\ history_log \in UNION {[1..k -> PoolEntries] : k \in 0..MaxPool}
    /\ weekly_data = None
    /\ wpc = "call"
    /\ individual_matches = <<>>
    /\ loaded = <<>>
    /\ hpc = "idle"

PoolSpec == PoolSpecInit /\ [][WeeklyNext]_vars

\* save_matches_for_stats 411-412 calls save_match_history on a file that is
\* missing, unreadable, or holds up to stats_max_history entries; each save
\* is followed by a reload of the log
HistorySpecInit ==
    /\ BotInit /\ players = <<>> /\ RetryIdle /\ CategoryIdle /\ ClientIdle
    /\ weekly_data = None /\ wpc = "idle"
    /\ history_state \in {"missing", "corrupt", "ok"}
    /\ history_log \in UNION {[1..k -> {EntryOf(m) : m \in IndividualMatches}] :
                                 k \in 0..stats_max_history}
    /\ history_state # "ok" => history_log = <<>>
    /\ individual_matches = <<>>
    /\ loaded = <<>>
    /\ hpc = "ready"

HistoryNext ==
    \/ SaveMatchHistory \/ SaveMatchHistoryUnreadable
    \/ SaveMatchHistoryWriteFails \/ LoadHistory

HistorySpec == HistorySpecInit /\ [][HistoryNext]_vars

ClientSpecInit ==
    /\ BotInit /\ RetryIdle /\ CategoryIdle /\ WeeklyIdle /\ ClientInit
    /\ players \in {<<"alice", "bob">>, <<"alice">>, <<>>}

ClientNext ==
    \/ OnReady \/ WeeklyTimer
    \/ LoopCycleBegin \/ LoopRequest \/ LoopResponse \/ LoopCycleEnd
    \/ \E admin \in BOOLEAN :
          \/ \E n \in CommandNames : CmdAddPlayer(admin, n) \/ CmdRemovePlayer(admin, n)
          \/ CmdListPlayers(admin)
          \/ \E named \in BOOLEAN : CmdTestPost(admin, named)
          \/ CmdWeeklyNow(admin)

ClientSpec == ClientSpecInit /\ [][ClientNext]_vars

ResetSpec == ResetSpecInit /\ [][ResetCycle]_vars

\* ------------------------------------------------------------------ properties
\* how many times match id m has been sent to the channel
RECURSIVE SumCopies(_)
SumCopies(S) ==
    IF S = {} THEN 0
    ELSE LET r == CHOOSE x \in S : TRUE
         IN  CopiesIn(r, channel) + SumCopies(S \ {r})

SentCount(m) == SumCopies({r \in BagToSet(channel) : r.match_id = m})

RecordsOf(m) == {i \in 1..Len(results) : results[i].match_id = m}

\* p1 and p2 were both resolved to the same match id in the running cycle
SameResolved(p1, p2) ==
    p1 # p2 /\ polled[p1] = polled[p2] /\ polled[p1] > NoMatch

InCycle == pc \in {"lookup", "detail", "next", "send"}

\* C1: a record is sent only from new_matches, and new_matches holds only
\* records whose id was not in posted_matches when the results were filtered
\* (posted_matches being the ledger reloaded from disk after a restart)
C1_SentOnlyIfNotPosted ==
    [][ /\ (pc = "next" /\ pc' = "send") =>
              \A i \in 1..Len(new_matches') :
                  new_matches'[i].match_id \notin posted_matches
        /\ (pc = "send" /\ pc' = "send") => new_matches' = new_matches
        /\ \A r \in BagToSet(channel') :
              CopiesIn(r, channel') > CopiesIn(r, channel) =>
                  pc = "send" /\ r = new_matches[post_idx + 1]
      ]_vars

\* after a restart the only match, sent before the kill and in the ledger, is
\* polled again and filtered out
C1_Witness ==
    /\ restarts = 1 /\ events = 2 /\ players = <<"alice">>
    /\ pc = "sleep" /\ outcome = "all_posted"
    /\ results # <<>>
    /\ \A i \in 1..Len(results) :
          results[i].match_id \in ledger_file /\ SentCount(results[i].match_id) = 1

\* C2: no match id is sent to the channel more than once
C2_NoDoublePosting == \A m \in 1..Len(api_matches) : SentCount(m) <= 1

C4_LedgerKeepsNewest ==
    Len(recent) = max_history => ledger_file = Range(recent)

\* C5: no record with an empty all_players_stats is ever in the channel
C5_EmptyNeverSent ==
    \A r \in BagToSet(channel) : r.all_players_stats # {}

\* a record without player stats went through the posting loop and was skipped
C5_Witness ==
    /\ outcome = "skipped"
    /\ \E i \in 1..Len(results) :
          /\ results[i].all_players_stats = {}
          /\ results[i].match_id \in ledger_file
          /\ SentCount(results[i].match_id) = 0

C7_RateLimitNeverExhausts ==
    (rpc = "done" /\ max_retries >= 1) =>
        \A k \in 0..MaxRetries :
            ( /\ \A i \in 1..k : Received(server[i], remaining[i]) = "429"
              /\ Received(server[k + 1], remaining[k + 1]) = "ok" )
            => ret = "data"

\* C8: a failed lookup or fetch leaves the loop where a successful one does,
\* with roster and results untouched, and from there the loop takes the next
\* roster entry, or ends the cycle when there is none
C8_FailureNotFatal ==
    [][ /\ ( /\ pc \in {"lookup", "detail"} /\ pc' # pc
             /\ outcome' \in LookupFailures \cup DetailFailures )
           => /\ pc' = "next"
              /\ UNCHANGED <<idx, players, results, tracked_player_names>>
        /\ ( /\ pc = "next" /\ pc' # pc /\ restarts' = restarts
             /\ outcome \in LookupFailures \cup DetailFailures )
           => IF idx < Len(players)
              THEN pc' = "lookup" /\ player_name' = players[idx + 1]
              ELSE pc' \in {"sleep", "send", "cooldown"}
      ]_vars

\* the lookup of the first player failed and the second was polled and resolved
C8_Witness ==
    /\ pc = "next" /\ Len(players) = 2 /\ idx = 2
    /\ polled[players[1]] = NoMatch
    /\ polled[players[2]] > NoMatch

\* C9: whenever no cycle is in progress (the last one completed or raised), a
\* cycle is eventually in progress again; with an empty roster a cycle is a
\* single step that polls nobody
C9_NextCycleStarts ==
    [](~InCycle => <>(InCycle \/ players = <<>>))

\* a cycle has raised and the loop is in its 60 s cooldown
C9_Witness == pc = "cooldown" /\ outcome = "cycle_error" /\ players # <<>>

\* C10: determine_match_category returns CUSTOM whenever is_custom is true
C10_CustomWins ==
    (cpc = "returned" /\ is_custom) => match_category = CUSTOM

\* a custom match whose match type reads competitive and whose game mode is an
\* arcade keyword has been categorised CUSTOM
C10_Witness ==
    /\ cpc = "returned" /\ is_custom
    /\ match_type = <<"c","o","m","p","e","t","i","t","i","v","e">>
    /\ game_mode = <<"t","d","m">>
    /\ match_category = CUSTOM

\* C11: determine_match_category("team-deathmatch", "official", False) returns
\* ARCADE and determine_match_category("solo", "official", False) returns NORMAL
C11_Examples ==
    ( /\ cpc = "returned" /\ ~is_custom
      /\ match_type = <<"o","f","f","i","c","i","a","l">> )
    => /\ game_mode = <<"t","e","a","m","-","d","e","a","t","h","m","a","t","c","h">>
            => match_category = ARCADE
       /\ game_mode = <<"s","o","l","o">> => match_category = NORMAL

\* the categories the weekly aggregation is to leave out, as the summary's
\* reader names them: casual, arcade or airoyale in any letter case
NamedExcluded(e) ==
    \/ Contains(<<"c","a","s","u","a","l">>, Lower(e.category))
    \/ Contains(<<"a","r","c","a","d","e">>, Lower(e.category))
    \/ Contains(<<"a","i","r","o","y","a","l","e">>, Lower(e.category))

NotNamedExcluded(e) == ~NamedExcluded(e)

\* the entries of the history that pass both filters
Counted(e) == NotNamedExcluded(e) /\ e.timestamp = "recent"

CountedOf(p) ==
    {i \in 1..Len(history_log) :
        Counted(history_log[i]) /\ history_log[i].player_name = p}

RECURSIVE KillsOver(_)
KillsOver(I) ==
    IF I = {} THEN 0
    ELSE LET i == CHOOSE x \in I : TRUE
         IN  history_log[i].stats.kills + KillsOver(I \ {i})

SummaryReturned == wpc = "returned" /\ weekly_data.kind = "summary"

\* C12: an entry whose category contains CASUAL, ARCADE or AIROYALE in any
\* letter case contributes to nothing: the value returned is the one the
\* history without these entries gives, and total_matches counts none of them
C12_ExcludedNeverCounts ==
    wpc = "returned" =>
        LET kept == SelectSeq(history_log, NotNamedExcluded)
        IN  /\ weekly_data = calculate_weekly_best(history_state, kept)
            /\ weekly_data.kind = "summary" =>
                  /\ weekly_data.total_matches <= Len(kept)
                  /\ \A i \in 1..Len(weekly_data.top3_longest_kills) :
                        \E j \in 1..Len(kept) :
                            /\ kept[j].player_name =
                                   weekly_data.top3_longest_kills[i].player
                            /\ kept[j].stats.longest_kill =
                                   weekly_data.top3_longest_kills[i].distance

\* a summary was returned for a history with a recent entry stored as
\* "casual" and a longest kill, besides an entry that counts
C12_Witness ==
    /\ SummaryReturned
    /\ \E i \in 1..Len(history_log) :
          /\ history_log[i].category = <<"c","a","s","u","a","l">>
          /\ history_log[i].timestamp = "recent"
          /\ history_log[i].stats.longest_kill > 0
    /\ weekly_data.total_matches = Len(history_log) - 1

\* C13: calculate_weekly_best never raises, and returns None for a missing
\* file, an empty history and a history whose every entry is filtered out
\* (excluded category, unparsable timestamp, older than the cutoff)
C13_NeverRaises ==
    wpc = "returned" =>
        /\ weekly_data.kind # "raised"
        /\ ( \/ history_state # "ok"
             \/ \A i \in 1..Len(history_log) :
                   \/ NamedExcluded(history_log[i])
                   \/ history_log[i].timestamp \in {"unparsable", "naive", "old"} )
           => weekly_data = None

\* None was returned for a readable history holding an entry of an excluded
\* category, one with an unparsable timestamp and one older than the cutoff
C13_Witness ==
    /\ wpc = "returned" /\ weekly_data = None /\ history_state = "ok"
    /\ \E i, j, k \in 1..Len(history_log) :
          /\ NamedExcluded(history_log[i]) /\ history_log[i].timestamp = "recent"
          /\ history_log[j].timestamp = "unparsable"
          /\ history_log[k].timestamp = "old"

\* C14 as claimed: for every player of the summary, over the player's
\* filtered entries, matches is their number, avg_kills is exactly total kills
\* divided by matches, wins counts the ranks 1, best_kills is the largest
\* kills; a player without filtered entries is not in the summary
C14_ExactAverages ==
    SummaryReturned =>
        /\ \A i \in 1..Len(weekly_data.all_players) :
              LET p == weekly_data.all_players[i].player
                  st == weekly_data.all_players[i].stats
                  I == CountedOf(p)
              IN  /\ st.matches = Cardinality(I)
                  /\ st.avg_kills * st.matches = 100 * KillsOver(I)
                  /\ st.wins =
                        Cardinality({j \in I : history_log[j].stats.rank = 1})
                  /\ \A j \in I : history_log[j].stats.kills <= st.best_kills
                  /\ \E j \in I : history_log[j].stats.kills = st.best_kills
        /\ \A p \in Names :
              CountedOf(p) = {} =>
                  \A i \in 1..Len(weekly_data.all_players) :
                      weekly_data.all_players[i].player # p

\* C14 as amended: the same with avg_kills the hundredth nearest to total
\* kills divided by matches
C14_RoundedAverages ==
    SummaryReturned =>
        /\ \A i \in 1..Len(weekly_data.all_players) :
              LET p == weekly_data.all_players[i].player
                  st == weekly_data.all_players[i].stats
                  I == CountedOf(p)
                  diff == 100 * KillsOver(I) - st.avg_kills * st.matches
              IN  /\ st.matches = Cardinality(I)
                  /\ 2 * diff <= st.matches /\ -2 * diff <= st.matches
                  /\ st.wins =
                        Cardinality({j \in I : history_log[j].stats.rank = 1})
                  /\ \A j \in I : history_log[j].stats.kills <= st.best_kills
                  /\ \E j \in I : history_log[j].stats.kills = st.best_kills
        /\ \A p \in Names :
              CountedOf(p) = {} =>
                  \A i \in 1..Len(weekly_data.all_players) :
                      weekly_data.all_players[i].player # p

\* the history holds alice's kills 5, 3, 10 with ranks 1, 4, 2 and nothing of
\* bob: the summary gives alice avg_kills 6.00, wins 1, best_kills 10
C14_Witness ==
    /\ SummaryReturned
    /\ [i \in 1..Len(history_log) |-> history_log[i].stats.kills] = <<5, 3, 10>>
    /\ [i \in 1..Len(history_log) |-> history_log[i].stats.rank] = <<1, 4, 2>>
    /\ Len(weekly_data.all_players) = 1
    /\ weekly_data.all_players[1].player = "alice"
    /\ weekly_data.all_players[1].stats.avg_kills = 600
    /\ weekly_data.all_players[1].stats.wins = 1
    /\ weekly_data.all_players[1].stats.best_kills = 10

\* the entry appended last by the call of save_match_history
LastAppended == EntryOf(individual_matches[Len(individual_matches)])

C16_RosterMutationAtomic ==
    /\ (pc = "lookup" /\ player_name \in stayed) => polled[player_name] = NotPolled
    /\ LoopDone => \A p \in stayed : polled[p] # NotPolled

\* C17: addplayer, removeplayer, weeklynow and testpost issued by a caller who
\* is no administrator change neither the roster, nor a file, nor the weekly
\* channel, and their only output is the refusal.
C17_AdminOnly ==
    [][(/\ command' # command
        /\ command'.name \in {"addplayer", "removeplayer", "weeklynow", "testpost"}
        /\ ~command'.admin)
       => /\ players' = players
          /\ test_embed_file' = test_embed_file
          /\ weekly_posted' = weekly_posted
          /\ replies' = <<"refused">>]_vars

\* C20: at most one polling cycle is in progress and at most one request to
\* the PUBG API is in flight, whatever on_ready, the commands and the weekly
\* timer do.
C20_OneCycleOneRequest == cycles <= 1 /\ in_flight <= 1

\* on_ready has fired twice, the weekly timer has run, and a request of the
\* running cycle is in flight
C20_Witness ==
    /\ events >= 2 /\ command = NoCommand
    /\ weekly_posted
    /\ cycles = 1 /\ in_flight = 1

\* C18: when a cycle leaves post_matches_to_discord, every record of the batch
\* whose id the cycle has recorded in posted_matches has had its publish step
\* run (it was reached by the sending loop), also when a send has raised.
C18_RecordedOnlyIfPublished ==
    [][(pc = "send" /\ pc' # "send" /\ restarts' = restarts)
       => \A i \in 1..Len(new_matches) :
              new_matches[i].match_id \in posted_matches' => i <= post_idx + 1
      ]_vars

\* C19: a response that is no 429 is handled as its status alone requires,
\* whatever the values of its rate-limit headers: a success is returned, a
\* client error is retried with its backoff (or ends the call on the last
\* attempt), any other failure ends the call, and request_count grows by one.
C19_HeadersDoNotAlterFlow ==
    [][(/\ rpc = "loop" /\ attempt < max_retries
        /\ server[attempt + 1] # "429"
        /\ request_count' # request_count)
       => LET status == server[attempt + 1]
          IN  /\ request_count' = request_count + 1
              /\ status = "ok" => ret' = "data" /\ rpc' = "done"
              /\ status = "other_error" => ret' = "None" /\ rpc' = "done"
              /\ (status = "client_error" /\ attempt = max_retries - 1)
                    => ret' = "None" /\ rpc' = "done"
              /\ (status = "client_error" /\ attempt < max_retries - 1)
                    => /\ rpc' = "loop" /\ attempt' = attempt + 1
                       /\ waits' = Append(waits, BackoffWait(attempt))
      ]_vars

\* C21: determine_match_category returns for every input, and what it returns
\* is fixed by the first rule of this list that matches (letter case apart):
\* is_custom gives CUSTOM; a match type containing competitive or ranked gives
\* RANKED; a match type containing airoyale gives CASUAL; a game mode
\* containing an arcade keyword gives ARCADE; one of the six normal game modes
\* gives NORMAL with match type official or seasonal and ARCADE otherwise;
\* anything else gives UNKNOWN with the game mode as passed.
C21_PriorityOrder ==
    cpc = "returned" =>
        LET ranked == \/ Contains(<<"c","o","m","p","e","t","i","t","i","v","e">>,
                                  Lower(match_type))
                      \/ Contains(<<"r","a","n","k","e","d">>, Lower(match_type))
            airoyale == Contains(<<"a","i","r","o","y","a","l","e">>,
                                 Lower(match_type))
            keyword == \E w \in {<<"w","a","r">>, <<"z","o","m","b","i","e">>,
                                 <<"t","r","a","i","n","i","n","g">>,
                                 <<"t","d","m">>,
                                 <<"c","o","n","q","u","e","s","t">>,
                                 <<"i","n","t","e","n","s","e">>,
                                 <<"e","s","p","o","r","t","s">>,
                                 <<"e","v","e","n","t">>, <<"l","a","b">>,
                                 <<"a","r","c","a","d","e">>, <<"i","b","r">>,
                                 <<"b","a","t","t","l","e","r","o","y","a","l">>} :
                           Contains(w, Lower(game_mode))
            normal == Lower(game_mode) \in
                          {<<"s","o","l","o">>, <<"s","o","l","o","-","f","p","p">>,
                           <<"d","u","o">>, <<"d","u","o","-","f","p","p">>,
                           <<"s","q","u","a","d">>,
                           <<"s","q","u","a","d","-","f","p","p">>}
            official == Lower(match_type) \in
                            {<<"o","f","f","i","c","i","a","l">>,
                             <<"s","e","a","s","o","n","a","l">>}
        IN  /\ is_custom => match_category = CUSTOM
            /\ (~is_custom /\ ranked) => match_category = RANKED
            /\ (~is_custom /\ ~ranked /\ airoyale) => match_category = CASUAL
            /\ (~is_custom /\ ~ranked /\ ~airoyale /\ keyword)
                  => match_category = ARCADE
            /\ (~is_custom /\ ~ranked /\ ~airoyale /\ ~keyword /\ normal)
                  => match_category = (IF official THEN NORMAL ELSE ARCADE)
            /\ (~is_custom /\ ~ranked /\ ~airoyale /\ ~keyword /\ ~normal)
                  => match_category = <<"U","N","K","N","O","W","N"," ","(">>
                                          \o game_mode \o <<")">>

\* an airoyale match played in a game mode that is an arcade keyword has been
\* categorised CASUAL, the earlier rule
C21_Witness ==
    /\ cpc = "returned" /\ ~is_custom
    /\ match_type = <<"a","i","r","o","y","a","l","e">>
    /\ game_mode = <<"w","a","r">>
    /\ match_category = CASUAL

\* C22: a match whose detail fetch failed for a player is fetched again the
\* next time a cycle of the same process polls that player, the lookup
\* answers, the match is still the player's latest and no other player has
\* claimed it in that cycle: the lookup is followed by the detail request.
C22_FailedFetchRetried ==
    [][(/\ pc = "lookup"
        /\ outcome' \in {"new_match", "same_match", "already_processed"}
        /\ <<player_name, Latest(player_name)>> \in unfetched
        /\ Latest(player_name) \notin processed_matches_this_cycle)
       => pc' = "detail"
      ]_vars

\* C23: within one cycle no match id has its detail requested twice, and a
\* lookup that resolves to an id already in processed_matches_this_cycle is
\* followed by no detail request, appends nothing to results and sets the
\* player's last_match_ids entry to that id.
C23_DetailOncePerCycle ==
    [][ /\ \A i, j \in 1..Len(requested') : requested'[i] = requested'[j] => i = j
        /\ ( /\ pc = "lookup"
             /\ outcome' \in {"new_match", "same_match", "already_processed"}
             /\ Latest(player_name) \in processed_matches_this_cycle )
           => /\ pc' = "next"
              /\ results' = results
              /\ requested' = requested
              /\ last_match_ids' =
                    [last_match_ids EXCEPT ![player_name] = Latest(player_name)]
      ]_vars

\* the second player of a match has been polled after the first one's fetch:
\* one detail request in the cycle, both last-seen entries on the match
C23_Witness ==
    /\ pc = "next" /\ outcome = "already_processed"
    /\ Len(requested) = 1
    /\ last_match_ids["alice"] = requested[1]
    /\ last_match_ids["bob"] = requested[1]
    /\ seen_before["bob"] # requested[1]

\* every player the running cycle has polled resolved to the id that
\* last_match_ids held for them when the cycle began
AllSameAsLastCycle ==
    /\ \E p \in Names : polled[p] # NotPolled
    /\ \A p \in Names :
          polled[p] # NotPolled => polled[p] > NoMatch /\ polled[p] = seen_before[p]

\* C24: when the for loop of a cycle ends and every player polled resolved to
\* the id last seen for them in a previous cycle, the cycle has requested no
\* match detail, its results are empty, and what it does next sends nothing
\* and leaves the ledger (in memory and on disk) and the history log as they
\* are.
C24_NothingNewNothingDone ==
    [][(LoopDone /\ AllSameAsLastCycle /\ restarts' = restarts)
       => /\ requested = <<>>
          /\ results = <<>>
          /\ channel' = channel
          /\ posted_matches' = posted_matches
          /\ ledger_file' = ledger_file
          /\ history_log' = history_log
          /\ history_state' = history_state
      ]_vars

\* a second cycle over two players whose match of the first cycle was posted
\* has polled both and found nothing new
C24_Witness ==
    /\ LoopDone /\ AllSameAsLastCycle
    /\ Len(players) = 2
    /\ \A p \in Names : polled[p] # NotPolled
    /\ channel # EmptyBag

\* C25: reset_cycle leaves results empty, request_count at 0 and
\* processed_matches_this_cycle empty, and last_match_ids as it was.
C25_ResetKeepsLastSeen ==
    [][(pc = "call" /\ pc' = "returned")
       => /\ results' = <<>>
          /\ request_count' = 0
          /\ processed_matches_this_cycle' = {}
          /\ last_match_ids' = last_match_ids
      ]_vars

\* reset_cycle has returned: the per-cycle fields are empty and the last-seen
\* ids of both players are still there
C25_Witness ==
    /\ pc = "returned"
    /\ results = <<>> /\ request_count = 0 /\ processed_matches_this_cycle = {}
    /\ last_match_ids["alice"] = 1 /\ last_match_ids["bob"] = 2

\* C26: when the detail of a player's new match is about to be fetched, the
\* names passed to extract the stats cover every player on the roster at
\* that moment, and the polled player is among them.
C26_FullRosterPassed ==
    [][(pc = "lookup" /\ pc' = "detail")
       => LET used == TrackedArg(tracked_player_names', player_name')
          IN  /\ Range(players') \subseteq used
              /\ player_name' \in used
      ]_vars

\* C27: a call whose every attempt meets a failure other than a 429 (an HTTP
\* or connection error, or a request timeout), the rate limit headers being
\* well formed, issues exactly max_retries requests, waits (i + 1) * 5 seconds
\* after the failed attempt i < max_retries - 1, and returns failure.
C27_FailuresRetriedWithBackoff ==
    (/\ rpc = "done"
     /\ max_retries > 0
     /\ \A i \in 1..max_retries :
            /\ server[i] \in {"client_error", "other_error"}
            /\ remaining[i] \in {"N/A", "2", "40"})
    => /\ request_count = max_retries
       /\ waits = [i \in 1..(max_retries - 1) |-> BackoffWait(i - 1)]
       /\ ret = "None"

\* C28: a call of make_request_with_retry never issues more than max_retries
\* requests, whatever the server answers; with max_retries = 0 it returns
\* failure without a request; and every call comes to its return.
C28_CallTerminates ==
    /\ [](request_count <= max_retries)
    /\ []((rpc = "done" /\ max_retries = 0) => (ret = "None" /\ request_count = 0))
    /\ <>(rpc = "done")

\* a call that was answered 429 on every attempt has returned
C28_Witness ==
    /\ rpc = "done"
    /\ max_retries = MaxRetries
    /\ request_count = max_retries
    /\ Len(waits) = max_retries

\* C29: when the posting of a cycle ends, the flattened records handed to the
\* match history in the cycle hold exactly one entry for every record sent to
\* the channel in the cycle and every player of its all_players_stats, and no
\* entry of a match the ledger filtered out.
C29_SentRecordsEnterHistory ==
    [][(pc = "send" /\ pc' # "send" /\ restarts' = restarts)
       => LET sent == {i \in 1..Len(new_matches) :
                          /\ EmbedBuilt(new_matches[i])
                          /\ \/ i <= post_idx
                             \/ i = post_idx + 1 /\ channel' # channel}
              appended == individual_matches'
          IN  /\ \A i \in sent : \A q \in new_matches[i].all_players_stats :
                    Cardinality({k \in 1..Len(appended) :
                                    /\ appended[k].match_id = new_matches[i].match_id
                                    /\ appended[k].player_name = q}) = 1
              /\ \A k \in 1..Len(appended) :
                    appended[k].match_id \in MatchIdsOf(new_matches)
      ]_vars

\* C30: a call of save_match_history that succeeds leaves as the persisted log
\* the last max_history elements of the log it found followed by the new
\* entries in their order: no more than max_history entries, in the order
\* they had, the ones left out being the oldest.
C30_SaveKeepsNewestInOrder ==
    [][(hpc # "saved" /\ hpc' = "saved")
       => LET previous == IF history_state = "ok" THEN history_log ELSE <<>>
              all == previous \o [i \in 1..Len(individual_matches') |->
                                     EntryOf(individual_matches'[i])]
              kept == Len(history_log')
          IN  /\ kept = Min(Len(all), stats_max_history)
              /\ \A i \in 1..kept : history_log'[i] = all[Len(all) - kept + i]
      ]_vars

\* a save of one entry on a full log that had been read back: the oldest
\* entry has gone, the second is now the first
C30_Witness ==
    /\ hpc = "saved"
    /\ Len(loaded) = stats_max_history
    /\ Len(individual_matches) = 1
    /\ Len(history_log) = stats_max_history
    /\ history_log[1] = loaded[2]
    /\ history_log # loaded

\* C31: a call of save_match_history that finds a history file it cannot parse
\* takes the file for an empty log: it persists the new entries, and the file
\* can be read afterwards.
C31_MalformedHistoryIsEmpty ==
    [][(history_state = "corrupt" /\ hpc # "saved" /\ hpc' \in {"saved", "failed"})
       => /\ hpc' = "saved"
          /\ history_state' = "ok"
          /\ history_log' = LastN([i \in 1..Len(individual_matches') |->
                                      EntryOf(individual_matches'[i])],
                                  stats_max_history)
      ]_vars

\* C32: as long as the ledger file is missing or cannot be read, the bot that
\* was started on it runs with an empty ledger: its cycles take no match for
\* posted, so every distinct record of a cycle's results goes to the posting.
C32_UnreadableLedgerIsEmpty ==
    ledger_state # "ok" =>
        /\ posted_matches = {}
        /\ (LoopDone /\ results # <<>>) =>
              MatchIdsOf(FilterNew(results, posted_matches)) = MatchIdsOf(results)

\* a cycle of a bot started on a damaged file naming a match has fetched
\* that match and is about to post it
C32_Witness ==
    /\ ledger_state = "corrupt"
    /\ ledger_file # {}
    /\ LoopDone
    /\ \E i \in 1..Len(results) : results[i].match_id \in ledger_file

BestDistance(p) ==
    LET ds == {history_log[i].stats.longest_kill : i \in CountedOf(p)} \cup {0}
    IN  CHOOSE d \in ds : \A e \in ds : e <= d

\* C34: the top-3 longest kills of a summary are at most three, of distinct
\* players, each farther than 0 and none farther than the one before it; each
\* distance is the largest longest_kill of its player over the entries that
\* pass the filters, and no player left out has a larger one than a player
\* listed.
C34_Top3LongestKills ==
    SummaryReturned =>
        LET top == weekly_data.top3_longest_kills
            listed == {top[i].player : i \in 1..Len(top)}
        IN  /\ Len(top) <= 3
            /\ \A i, j \in 1..Len(top) :
                  i < j => /\ top[i].player # top[j].player
                           /\ top[i].distance >= top[j].distance
            /\ \A i \in 1..Len(top) :
                  /\ top[i].distance > 0
                  /\ top[i].distance = BestDistance(top[i].player)
                  /\ \A p \in HistoryPlayers \ listed :
                        BestDistance(p) <= top[i].distance

\* four players have a longest kill, one of them twice; three are listed and
\* the one left out has a kill
C34_Witness ==
    /\ SummaryReturned
    /\ Len(weekly_data.top3_longest_kills) = 3
    /\ \A p \in HistoryPlayers : BestDistance(p) > 0
    /\ weekly_data.top3_longest_kills[1].distance = 250
    /\ weekly_data.top3_longest_kills[3].distance = 100

\* C35: in a summary, all_players goes from the highest score down, the best
\* player reported is its first key, with its stats, and of two players with
\* the same score the one met first in the filtered history comes first.
C35_RankedByScore ==
    SummaryReturned =>
        LET all == weekly_data.all_players
            First(p) == CHOOSE i \in CountedOf(p) : \A j \in CountedOf(p) : i <= j
        IN  /\ weekly_data.player = all[1].player
            /\ weekly_data.stats = all[1].stats
            /\ \A i, j \in 1..Len(all) :
                  i < j =>
                    /\ all[i].stats.score >= all[j].stats.score
                    /\ all[i].stats.score = all[j].stats.score
                          => First(all[i].player) < First(all[j].player)

\* bob and alice have the same score and bob is met first, after an entry of
\* alice that does not count
C35_Witness ==
    /\ SummaryReturned
    /\ Len(weekly_data.all_players) = 2
    /\ weekly_data.all_players[1].stats.score = weekly_data.all_players[2].stats.score
    /\ weekly_data.player = "bob"
    /\ Len(history_log) = 3
    /\ history_log[1].player_name = "alice"

C37_CountsConsistent ==
    SummaryReturned =>
        LET all == weekly_data.all_players
            Sum[n \in 0..Len(all)] ==
                IF n = 0 THEN 0 ELSE Sum[n - 1] + all[n].stats.matches
        IN  /\ \A i \in 1..Len(all) :
                  LET st == all[i].stats
                  IN  /\ 1 <= st.matches
                      /\ st.wins <= st.top_5
                      /\ st.top_5 <= st.top_10
                      /\ st.top_10 <= st.matches
            /\ Sum[Len(all)] = weekly_data.total_matches
            /\ weekly_data.total_matches =
                  Cardinality({i \in 1..Len(history_log) : Counted(history_log[i])})

\* a summary of two players over three entries: a win, a top-10 place and a
\* 15th place
C37_Witness ==
    /\ SummaryReturned
    /\ Len(weekly_data.all_players) = 2
    /\ weekly_data.total_matches = 3
    /\ {history_log[i].stats.rank : i \in 1..Len(history_log)} = {1, 8, 15}

\* C38: an addplayer or removeplayer command that fails to write the roster
\* file leaves the roster with exactly the names it had before the command.
C38_RosterRolledBack ==
    [][(command' # command /\ replies' \in {<<"error saving">>, <<"error updating">>})
       => /\ Range(players') = Range(players)
          /\ Len(players') = Len(players)
      ]_vars

\* C39: when post_matches_to_discord does not find the channel, nothing is sent
\* and the ledger, in memory and on disk, and the match history stay as they
\* were.
C39_ChannelMissingNoEffect ==
    [][(pc = "next" /\ pc' = "sleep" /\ outcome' = "channel_missing")
       => UNCHANGED <<channel, posted_matches, ledger_file, ledger_state,
                      history_state, history_log, individual_matches>>
      ]_vars

\* a cycle has ended on the missing channel with a result that is not in the
\* ledger
C39_Witness ==
    /\ pc = "sleep"
    /\ outcome = "channel_missing"
    /\ FilterNew(results, posted_matches) # <<>>

====
